---- MODULE Spec2Model ----
(***************************************************************************)
(* Model of the SmartFarmFlow orchestration of terra_hawk_crewai:          *)
(* src/src/terra_hawk_crewai/main.py (the flow, its run state, the         *)
(* checkpoint and the submission step), the EU AI Act cache read of        *)
(* crews/compliance_crew/compliance_crew.py and the report writer of       *)
(* tools/s3_report_writer.py.                                              *)
(*                                                                         *)
(* Python strings are TLA+ strings.  A parsed JSON value is a record       *)
(* [t |-> type tag, m |-> members, n |-> number]; json_dumps builds the    *)
(* text Python's json.dumps produces for it and json_loads parses a text.  *)
(***************************************************************************)
EXTENDS Integers, Sequences, FiniteSets, TLC

\* ------------------------------------------------------------------ bounds
\* largest number that occurs as a leaf of a generated JSON payload
MaxNum == 1
\* latest start of the run, in seconds after the instant RunEpoch
MaxDelay == 1
\* the report writer tool is not called once the bucket holds this many objects
MaxPuts == 3

\* --------------------------------------------------------------- JSON model
NoMembers == [x \in {} |-> 0]

JNull == [t |-> "null", m |-> NoMembers, n |-> 0, s |-> ""]
JList == [t |-> "list", m |-> NoMembers, n |-> 0, s |-> ""]
JNum(i) == [t |-> "num", m |-> NoMembers, n |-> i, s |-> ""]
JStr(text) == [t |-> "str", m |-> NoMembers, n |-> 0, s |-> text]
JDict(members) == [t |-> "dict", m |-> members, n |-> 0, s |-> ""]
JBool(b) == [t |-> "bool", m |-> NoMembers, n |-> IF b THEN 1 ELSE 0, s |-> ""]
\* a list with items: `items` is their sequence, which is not empty
JListOf(items) == [t |-> "list", m |-> items, n |-> 0, s |-> ""]

\* insertion order of the keys of the objects of the model
KeyOrder == <<"weather_analysis", "sensor_analysis", "vision_analysis",
              "compliance_analysis", "eu_ai_act_assessment",
              "master_analysis", "k",
              "summary", "topic", "date", "classification", "operational_impact",
              "nitrogen_emissions_relevance", "recommendations", "raw_content">>
            \o <<"location", "weather_data", "air_quality", "agricultural_assessment",
                 "temperature_c", "feels_like_c", "condition", "humidity", "wind_kph",
                 "aqi", "pm2_5", "pm10", "o3", "no2", "so2", "co",
                 "flight_clearance_status", "disease_risk_level",
                 "disease_risk_percentage", "nitrogen_volatilization_risk",
                 "optimal_operations",
                 "farm_id", "readings_count", "analysis_period", "zones_analyzed",
                 "soil_health_metrics", "irrigation_recommendations",
                 "environmental_correlations", "alerts", "zone_name",
                 "average_moisture", "average_temperature", "average_ph", "status",
                 "zone", "priority", "action", "reasoning", "deadline_category",
                 "bucket_name", "num_images_found", "region", "images", "key",
                 "content_type", "s3_uri", "presigned_url", "analysis_data",
                 "system_classification", "risk_level", "transparency_obligations",
                 "human_oversight_requirements", "data_governance_requirements",
                 "documentation_requirements", "logging_requirements",
                 "security_requirements", "compliance_gaps", "action_items",
                 "overall_compliance_status",
                 "executive_summary", "critical_alerts", "vision_summary",
                 "weather_summary", "sensor_summary", "compliance_summary",
                 "cross_functional_insights", "strategic_recommendations",
                 "operational_priorities", "overall_farm_status",
                 "financial_analysis", "total_days_analyzed", "financial_overview",
                 "revenue_analysis", "expense_analysis", "operational_analysis",
                 "roi_by_zone", "cash_flow_analysis", "forecasts",
                 "total_revenue", "total_expenses", "total_operational_costs",
                 "net_profit", "profit_margin_percentage", "revenue_by_type",
                 "top_revenue_sources", "revenue_trend", "expense_by_category",
                 "top_expense_categories", "expense_trend",
                 "total_flight_time_minutes", "total_area_covered_hectares",
                 "average_cost_per_hectare", "operations_by_type",
                 "revenue", "costs", "roi_percentage",
                 "cash_inflow", "cash_outflow", "net_cash_flow", "cash_flow_status",
                 "projected_monthly_revenue", "projected_monthly_expenses",
                 "projected_monthly_profit">>

\* the place of a key in that order
KeyIndex ==
    [k \in {KeyOrder[i] : i \in 1..Len(KeyOrder)} |->
        CHOOSE i \in 1..Len(KeyOrder) : KeyOrder[i] = k]

\* the members still to write, in key order
RECURSIVE JoinMembers(_, _, _)
JoinMembers(texts, rest, first) ==
    IF rest = {} THEN ""
    ELSE LET k == CHOOSE x \in rest : \A y \in rest : KeyIndex[x] <= KeyIndex[y]
         IN  (IF first THEN "" ELSE ", ")
             \o "\"" \o k \o "\": " \o texts[k]
             \o JoinMembers(texts, rest \ {k}, FALSE)

\* json.dumps(value) with the default separators (the strings of the model
\* hold no character that json.dumps escapes)
RECURSIVE JoinItems(_, _)
JoinItems(texts, i) ==
    IF i > Len(texts) THEN ""
    ELSE (IF i = 1 THEN "" ELSE ", ") \o texts[i] \o JoinItems(texts, i + 1)

RECURSIVE json_dumps(_)
json_dumps(v) ==
    CASE v.t = "null" -> "null"
      [] v.t = "bool" -> IF v.n = 1 THEN "true" ELSE "false"
      [] v.t = "list" ->
           IF DOMAIN v.m = {} THEN "[]"
           ELSE "[" \o JoinItems([i \in DOMAIN v.m |-> json_dumps(v.m[i])], 1) \o "]"
      [] v.t = "num"  -> ToString(v.n)
      [] v.t = "str"  -> "\"" \o v.s \o "\""
      [] v.t = "dict" ->
           "{" \o JoinMembers([k \in DOMAIN v.m |-> json_dumps(v.m[k])], DOMAIN v.m, TRUE) \o "}"

\* the values a section of a stage output may hold
Leaves == {JNum(i) : i \in 1..MaxNum}
SectionValues == {JDict(NoMembers), JNull} \cup {JDict([k \in {"k"} |-> l]) : l \in Leaves}

ObjectsOver(keyset) ==
    UNION {{JDict(f) : f \in [K -> SectionValues]} : K \in SUBSET keyset}

CropKeys == {"weather_analysis", "sensor_analysis", "vision_analysis"}
ComplianceKeys == {"compliance_analysis", "eu_ai_act_assessment"}
MasterKeys == {"master_analysis"}

\* the structure initiate_compliance_crew stores when the output does not parse
ComplianceParseError ==
    JDict([k \in ComplianceKeys |->
        IF k = "eu_ai_act_assessment" THEN JDict(NoMembers)
        ELSE JDict([f \in {"summary", "topic", "date", "classification",
                           "operational_impact", "nitrogen_emissions_relevance",
                           "recommendations"} |->
                CASE f = "summary" -> JStr("Parse error")
                  [] f = "classification" -> JStr("Neutral")
                  [] f = "recommendations" -> JList
                  [] OTHER -> JStr("")])])

\* ------------------------------------------------------------ stage outputs
Text == JStr("x")
Number == JNum(1)

\* a complete output of each guarded task, as its pydantic model describes it
ValidWeatherReport ==
    JDict([weather_analysis |-> JDict(
        [summary |-> Text, location |-> Text, date |-> Text,
         weather_data |-> JDict([temperature_c |-> Number, feels_like_c |-> Number,
                                 condition |-> Text, humidity |-> Number,
                                 wind_kph |-> Number]),
         air_quality |-> JDict([aqi |-> Number, pm2_5 |-> Number, pm10 |-> Number,
                                o3 |-> Number, no2 |-> Number, so2 |-> Number,
                                co |-> Number]),
         agricultural_assessment |-> JDict(
            [flight_clearance_status |-> JBool(TRUE),
             disease_risk_level |-> JStr("Low"),
             disease_risk_percentage |-> Number,
             nitrogen_volatilization_risk |-> JStr("Low"),
             optimal_operations |-> JList])])])

ValidSensorAnalysis ==
    JDict([sensor_analysis |-> JDict(
        [summary |-> Text, farm_id |-> Text, readings_count |-> Number,
         analysis_period |-> Text, zones_analyzed |-> JList,
         soil_health_metrics |-> JListOf(<<JDict(
            [zone_name |-> Text, average_moisture |-> Number,
             average_temperature |-> Number, average_ph |-> Number,
             status |-> JStr("Good")])>>),
         irrigation_recommendations |-> JListOf(<<JDict(
            [zone |-> Text, action |-> JStr("Maintain"), priority |-> JStr("Low"),
             reasoning |-> Text])>>),
         environmental_correlations |-> JList, alerts |-> JList])])

ValidImageList ==
    JDict([bucket_name |-> Text, num_images_found |-> JNum(1), region |-> Text,
           images |-> JListOf(<<JDict([key |-> Text, content_type |-> Text,
                                       s3_uri |-> Text, presigned_url |-> Text])>>)])

ValidCombinedCrop ==
    JDict([weather_analysis |-> ValidWeatherReport.m.weather_analysis,
           sensor_analysis |-> ValidSensorAnalysis.m.sensor_analysis,
           vision_analysis |-> JDict([analysis_data |-> JList])])

ValidCompliance ==
    JDict([compliance_analysis |-> JDict(
        [summary |-> Text, topic |-> Text, date |-> Text,
         classification |-> JStr("Neutral"), operational_impact |-> Text,
         nitrogen_emissions_relevance |-> Text, recommendations |-> JList])])

ValidEuAiAct ==
    JDict([eu_ai_act_assessment |-> JDict(
        [summary |-> Text, system_classification |-> Text,
         risk_level |-> JStr("limited_risk"),
         transparency_obligations |-> JList, human_oversight_requirements |-> JList,
         data_governance_requirements |-> JList, documentation_requirements |-> JList,
         logging_requirements |-> JList, security_requirements |-> JList,
         compliance_gaps |-> JList,
         action_items |-> JListOf(<<JDict([priority |-> JStr("High"), action |-> Text,
                                           deadline_category |-> JStr("ongoing")])>>),
         overall_compliance_status |-> JStr("Compliant")])])

ValidCombinedCompliance ==
    JDict([compliance_analysis |-> ValidCompliance.m.compliance_analysis,
           eu_ai_act_assessment |-> ValidEuAiAct.m.eu_ai_act_assessment])

ValidMasterReport ==
    JDict([master_analysis |-> JDict(
        [executive_summary |-> Text, critical_alerts |-> JList, vision_summary |-> Text,
         weather_summary |-> Text, sensor_summary |-> Text, compliance_summary |-> Text,
         cross_functional_insights |-> JList, strategic_recommendations |-> JList,
         operational_priorities |-> JList, overall_farm_status |-> JStr("Good")])])

ValidFinancialAnalysis ==
    JDict([financial_analysis |-> JDict(
        [summary |-> Text, farm_id |-> Text, analysis_period |-> Text,
         total_days_analyzed |-> Number,
         financial_overview |-> JDict(
            [total_revenue |-> Number, total_expenses |-> Number,
             total_operational_costs |-> Number, net_profit |-> Number,
             profit_margin_percentage |-> Number]),
         revenue_analysis |-> JDict(
            [revenue_by_type |-> JList, top_revenue_sources |-> JList,
             revenue_trend |-> JStr("Stable")]),
         expense_analysis |-> JDict(
            [expense_by_category |-> JList, top_expense_categories |-> JList,
             expense_trend |-> JStr("Stable")]),
         operational_analysis |-> JDict(
            [total_flight_time_minutes |-> Number, total_area_covered_hectares |-> Number,
             average_cost_per_hectare |-> Number, operations_by_type |-> JList]),
         roi_by_zone |-> JListOf(<<JDict(
            [zone |-> Text, revenue |-> Number, costs |-> Number,
             roi_percentage |-> Number, status |-> JStr("Profitable")])>>),
         cash_flow_analysis |-> JDict(
            [cash_inflow |-> Number, cash_outflow |-> Number, net_cash_flow |-> Number,
             cash_flow_status |-> JStr("Positive")]),
         forecasts |-> JDict(
            [projected_monthly_revenue |-> Number, projected_monthly_expenses |-> Number,
             projected_monthly_profit |-> Number]),
         recommendations |-> JList, alerts |-> JList])])

\* the complete output each guardrail is meant for
ValidOutputs ==
    [validate_weather_report_output |-> ValidWeatherReport,
     validate_sensor_analysis_output |-> ValidSensorAnalysis,
     validate_image_retriever_output |-> ValidImageList,
     validate_combined_output |-> ValidCombinedCrop,
     validate_compliance_output |-> ValidCompliance,
     validate_eu_ai_act_output |-> ValidEuAiAct,
     validate_combined_compliance_output |-> ValidCombinedCompliance,
     validate_master_report_output |-> ValidMasterReport,
     validate_financial_analysis_output |-> ValidFinancialAnalysis]

Guardrails == DOMAIN ValidOutputs

\* a place in an output: the keys from the top, "[0]" for the first item of a list
ItemKey(step) == IF step = "[0]" THEN 1 ELSE step

RECURSIVE PathsOf(_)
PathsOf(v) ==
    IF v.t = "dict"
    THEN UNION {{<<k>>} \cup {<<k>> \o p : p \in PathsOf(v.m[k])} : k \in DOMAIN v.m}
    ELSE IF v.t = "list" /\ DOMAIN v.m # {}
    THEN {<<"[0]">>} \cup {<<"[0]">> \o p : p \in PathsOf(v.m[1])}
    ELSE {}

\* the output with the value at a place replaced
RECURSIVE SetPath(_, _, _)
SetPath(v, path, new) ==
    IF path = <<>> THEN new
    ELSE [v EXCEPT !.m = [v.m EXCEPT ![ItemKey(Head(path))] =
                              SetPath(v.m[ItemKey(Head(path))], Tail(path), new)]]

\* the output with the member at a place left out (a list loses its only item)
RECURSIVE DropPath(_, _)
DropPath(v, path) ==
    IF Len(path) = 1
    THEN (IF Head(path) = "[0]" THEN JList
          ELSE [v EXCEPT !.m = [k \in DOMAIN v.m \ {Head(path)} |-> v.m[k]]])
    ELSE [v EXCEPT !.m = [v.m EXCEPT ![ItemKey(Head(path))] =
                              DropPath(v.m[ItemKey(Head(path))], Tail(path))]]

\* values of the wrong kind put in the place of a member
WrongValues == {JNull, Text, JList, JDict(NoMembers)}

\* the fields whose pydantic description gives a closed set of values, with
\* the guardrail of the task that produces them
EnumFields ==
    {[guardrail |-> "validate_weather_report_output",
      path |-> <<"weather_analysis", "agricultural_assessment", "disease_risk_level">>,
      allowed |-> {"Low", "Medium", "High"}],
     [guardrail |-> "validate_weather_report_output",
      path |-> <<"weather_analysis", "agricultural_assessment", "nitrogen_volatilization_risk">>,
      allowed |-> {"Low", "Medium", "High"}],
     [guardrail |-> "validate_sensor_analysis_output",
      path |-> <<"sensor_analysis", "soil_health_metrics", "[0]", "status">>,
      allowed |-> {"Good", "Attention Needed", "Critical"}],
     [guardrail |-> "validate_sensor_analysis_output",
      path |-> <<"sensor_analysis", "irrigation_recommendations", "[0]", "action">>,
      allowed |-> {"Increase", "Maintain", "Reduce"}],
     [guardrail |-> "validate_sensor_analysis_output",
      path |-> <<"sensor_analysis", "irrigation_recommendations", "[0]", "priority">>,
      allowed |-> {"High", "Medium", "Low"}],
     [guardrail |-> "validate_compliance_output",
      path |-> <<"compliance_analysis", "classification">>,
      allowed |-> {"Positive", "Neutral", "Negative"}],
     [guardrail |-> "validate_eu_ai_act_output",
      path |-> <<"eu_ai_act_assessment", "risk_level">>,
      allowed |-> {"minimal_risk", "limited_risk", "high_risk"}],
     [guardrail |-> "validate_eu_ai_act_output",
      path |-> <<"eu_ai_act_assessment", "overall_compliance_status">>,
      allowed |-> {"Compliant", "Partially Compliant", "Non-Compliant"}],
     [guardrail |-> "validate_eu_ai_act_output",
      path |-> <<"eu_ai_act_assessment", "action_items", "[0]", "priority">>,
      allowed |-> {"High", "Medium", "Low"}],
     [guardrail |-> "validate_eu_ai_act_output",
      path |-> <<"eu_ai_act_assessment", "action_items", "[0]", "deadline_category">>,
      allowed |-> {"immediate", "Q1_2026", "Q2_2026", "ongoing"}],
     [guardrail |-> "validate_master_report_output",
      path |-> <<"master_analysis", "overall_farm_status">>,
      allowed |-> {"Excellent", "Good", "Attention Needed", "Critical"}],
     [guardrail |-> "validate_financial_analysis_output",
      path |-> <<"financial_analysis", "revenue_analysis", "revenue_trend">>,
      allowed |-> {"Increasing", "Stable", "Decreasing"}],
     [guardrail |-> "validate_financial_analysis_output",
      path |-> <<"financial_analysis", "expense_analysis", "expense_trend">>,
      allowed |-> {"Increasing", "Stable", "Decreasing"}],
     [guardrail |-> "validate_financial_analysis_output",
      path |-> <<"financial_analysis", "roi_by_zone", "[0]", "status">>,
      allowed |-> {"Profitable", "Break-even", "Loss-making"}],
     [guardrail |-> "validate_financial_analysis_output",
      path |-> <<"financial_analysis", "cash_flow_analysis", "cash_flow_status">>,
      allowed |-> {"Positive", "Neutral", "Negative"}]}

\* a value outside every closed set
OutsideValue == "Severe"

\* the complete outputs with one enumerated field set to a value of its set or
\* to the outside value, as text
EnumVariantsOf(outputs, fields) ==
    {[guardrail |-> e.guardrail, path |-> e.path, allowed |-> e.allowed, value |-> x,
      raw |-> json_dumps(SetPath(outputs[e.guardrail], e.path, JStr(x)))] :
        e \in fields, x \in UNION {f.allowed : f \in fields} \cup {OutsideValue}}

EnumVariants == EnumVariantsOf(ValidOutputs, EnumFields)

\* JSON texts whose top level is no object
NonObjects ==
    {JNull, JList, Number, JBool(TRUE), JStr("text"),
     JStr("weather_analysis sensor_analysis vision_analysis"),
     JListOf(<<JStr("weather_analysis"), JStr("sensor_analysis"), JStr("vision_analysis")>>),
     JListOf(<<JStr("compliance_analysis"), JStr("eu_ai_act_assessment")>>),
     JListOf(<<JStr("bucket_name"), JStr("num_images_found"), JStr("region"),
               JStr("images")>>)}

\* an image list whose item is no object, or whose count is wrong
OddImageLists ==
    {SetPath(ValidImageList, <<"images", "[0]">>, Number),
     SetPath(ValidImageList, <<"images", "[0]">>, JStr("key content_type s3_uri presigned_url")),
     SetPath(ValidImageList, <<"num_images_found">>, JNum(0))}

\* the aggregated outputs whose sub-sections are all empty objects
EmptySections ==
    {JDict([weather_analysis |-> JDict(NoMembers), sensor_analysis |-> JDict(NoMembers),
            vision_analysis |-> JDict(NoMembers)]),
     JDict([compliance_analysis |-> JDict(NoMembers),
            eu_ai_act_assessment |-> JDict(NoMembers)])}

\* a value with the text json.dumps gives it
Entry(v) == [text |-> json_dumps(v), value |-> v]

\* a complete output, the output with one member left out, and the output
\* with one member of another type
OutputEntries(valid) ==
    {Entry(valid)}
    \cup {Entry(DropPath(valid, p)) : p \in PathsOf(valid)}
    \cup {Entry(SetPath(valid, p, w)) : p \in PathsOf(valid), w \in WrongValues}

\* the stage outputs of the model, each with its text
StageOutputsOf(outputs, fields) ==
    UNION {OutputEntries(outputs[g]) : g \in DOMAIN outputs}
    \cup {Entry(SetPath(outputs[e.guardrail], e.path, JStr(e.value))) :
             e \in EnumVariantsOf(outputs, fields)}
    \cup {Entry(v) : v \in NonObjects \cup OddImageLists \cup EmptySections}

StageOutputTable == StageOutputsOf(ValidOutputs, EnumFields)

\* raw outputs that are no JSON
NonJsonTexts == {"not json", "", "{weather_analysis: {}}", "json {}"}

\* the texts the model parses by inverting json_dumps
JsonValues == ObjectsOver(CropKeys) \cup ObjectsOver(ComplianceKeys)
              \cup ObjectsOver(MasterKeys) \cup SectionValues \cup Leaves
              \cup {JList, ComplianceParseError}

\* texts that parse although json.dumps never produces them
Spaced == [text : {"{ }"}, value : {JDict(NoMembers)}]

ParseError == [t |-> "JSONDecodeError", m |-> NoMembers, n |-> 0, s |-> ""]

\* every text the model can parse, with its value
\* what json.dumps makes of a text that is no JSON once the report writer has
\* wrapped it under raw_content
Wrapped(report_content) == JDict([k \in {"raw_content"} |-> JStr(report_content)])
WrappedTable == {Entry(Wrapped(text)) : text \in NonJsonTexts \cup {"# report"}}

ParseTable == {Entry(v) : v \in JsonValues} \cup Spaced \cup StageOutputTable
              \cup WrappedTable

\* the table as a function from text to value
TableFunction(table) ==
    [text \in {p.text : p \in table} |-> (CHOOSE p \in table : p.text = text).value]

Parsed == TableFunction(ParseTable)

ParseTexts == DOMAIN Parsed

\* the value the table gives a text, or ParseError for a text it does not hold
ValueIn(table, text) == IF text \in DOMAIN table THEN table[text] ELSE ParseError

\* json.loads(text): the parsed value, or ParseError when it raises
json_loads(text) == ValueIn(Parsed, text)

\* dict.get(key, {})
dict_get(d, key) == IF key \in DOMAIN d.m THEN d.m[key] ELSE JDict(NoMembers)

\* ------------------------------------------------------- inputs of a run
Full(keyset, v) == JDict([k \in keyset |-> v])
Section(l) == JDict([k \in {"k"} |-> l])

\* crop_result.raw: a complete object, objects with an empty, null or missing
\* section, an empty object, a JSON list, an object with inner blanks, no JSON
CropRawOutputs ==
    {json_dumps(Full(CropKeys, Section(l))) : l \in Leaves}
    \cup {json_dumps(JDict([k \in CropKeys |->
                IF k = empty THEN JDict(NoMembers) ELSE Section(JNum(1))])) :
            empty \in CropKeys}
    \cup {json_dumps(Full(CropKeys, JDict(NoMembers))),
          json_dumps(JDict([k \in {"weather_analysis", "sensor_analysis"} |-> Section(JNum(1))])),
          json_dumps(JDict([k \in CropKeys |->
                IF k = "sensor_analysis" THEN JNull ELSE Section(JNum(1))])),
          "{}", "[]", "{ }", "not json", ""}

\* compliance_result.raw
ComplianceRawOutputs ==
    {json_dumps(Full(ComplianceKeys, Section(JNum(1)))), "{}", "[]", "{ }", "not json", ""}

\* core_result.raw of the master chief task
MasterRawOutputs == {json_dumps(Full(MasterKeys, Section(JNum(1)))), "not json"}

\* what the human types at the checkpoint; "" is no answer
Feedbacks == {"", "looks good"}

\* how one call of S3ReportWriter._run ends: both objects stored ("none"),
\* the first put_object fails ("md"), or the second one does ("json")
WriteFaultKinds == {"md", "json"}

\* the faults of the five writes of one submission: any subset of the writes
\* fails, all in the same way
WriteFaults ==
    {[i \in 1..5 |-> IF i \in failing THEN kind ELSE "none"] :
        failing \in SUBSET (1..5), kind \in WriteFaultKinds}

\* ------------------------------------------------------------ EU AI Act cache
EU_AI_ACT_CACHE_TTL == 604800

RunEpoch == EU_AI_ACT_CACHE_TTL

\* the cache file: absent, or its text after json.loads
NoFile == [exists |-> FALSE, shape |-> "none", has_timestamp |-> FALSE,
           timestamp |-> 0, has_result |-> FALSE, result |-> ""]
EntryFile(ts, res) == [exists |-> TRUE, shape |-> "dict", has_timestamp |-> TRUE,
                       timestamp |-> ts, has_result |-> TRUE, result |-> res]
CacheFiles ==
    {NoFile,
     [NoFile EXCEPT !.exists = TRUE, !.shape = "not_json"],
     [NoFile EXCEPT !.exists = TRUE, !.shape = "list"],
     [EntryFile(1, "cached") EXCEPT !.has_result = FALSE, !.result = ""],
     EntryFile(0, "cached"), EntryFile(1, "cached"), EntryFile(1, "")}

\* _get_cached_eu_ai_act(): [raised |-> an exception left the function,
\*                           found |-> a string was returned (FALSE: None),
\*                           value |-> the string returned, "" with None]
_get_cached_eu_ai_act(file, time) ==
    LET None == [raised |-> FALSE, found |-> FALSE, value |-> ""]
    IN  IF ~file.exists THEN None
        ELSE IF file.shape = "not_json" THEN None
        ELSE IF file.shape # "dict" THEN [None EXCEPT !.raised = TRUE]
        ELSE IF time - (IF file.has_timestamp THEN file.timestamp ELSE 0) < EU_AI_ACT_CACHE_TTL
             THEN (IF file.has_result
                   THEN [raised |-> FALSE, found |-> TRUE, value |-> file.result]
                   ELSE None)
             ELSE None

\* _set_cached_eu_ai_act(result_json): the file write_text leaves
_set_cached_eu_ai_act(result_json, time) == EntryFile(time, result_json)

\* -------------------------------------------------------------- weather cache
CACHE_TTL == 1800

\* most advances of the clock in one behaviour
MaxTicks == 2

\* the locations the weather tool is asked for
Locations == {"Den Haag", "den haag"}

\* f"weather_{location.lower().replace(' ', '_')}.json"
CacheFileName ==
    [location \in Locations |->
        CASE location = "Den Haag" -> "weather_den_haag.json"
          [] location = "den haag" -> "weather_den_haag.json"]

CacheFileNames == {CacheFileName[location] : location \in Locations}

\* the files of CACHE_DIR before the first call: none, damaged ones, an entry
\* without its result, a written entry
WeatherCacheFiles ==
    {NoFile,
     [NoFile EXCEPT !.exists = TRUE, !.shape = "not_json"],
     [NoFile EXCEPT !.exists = TRUE, !.shape = "list"],
     [EntryFile(RunEpoch, "cached") EXCEPT !.has_result = FALSE, !.result = ""],
     [EntryFile(RunEpoch, "cached") EXCEPT !.has_timestamp = FALSE, !.timestamp = 0],
     EntryFile(RunEpoch, "cached")}

\* mutant: an entry is still served at the instant its age reaches the TTL
_get_cached_inclusive(file, time) ==
    LET None == [raised |-> "", found |-> FALSE, value |-> ""]
    IN  IF ~file.exists THEN None
        ELSE IF file.shape = "not_json" THEN [None EXCEPT !.raised = "JSONDecodeError"]
        ELSE IF file.shape # "dict" THEN [None EXCEPT !.raised = "TypeError"]
        ELSE IF ~file.has_timestamp THEN [None EXCEPT !.raised = "KeyError"]
        ELSE IF time - file.timestamp <= CACHE_TTL
             THEN (IF file.has_result
                   THEN [raised |-> "", found |-> TRUE, value |-> file.result]
                   ELSE [None EXCEPT !.raised = "KeyError"])
             ELSE None

\* _get_cached(location) on the file of the location:
\* [raised |-> the exception that left the function, or "",
\*  found |-> a string was returned (FALSE: None), value |-> that string]
_get_cached(file, time) ==
    LET None == [raised |-> "", found |-> FALSE, value |-> ""]
    IN  IF ~file.exists THEN None
        ELSE IF file.shape = "not_json" THEN [None EXCEPT !.raised = "JSONDecodeError"]
        ELSE IF file.shape # "dict" THEN [None EXCEPT !.raised = "TypeError"]
        ELSE IF ~file.has_timestamp THEN [None EXCEPT !.raised = "KeyError"]
        ELSE IF time - file.timestamp < CACHE_TTL
             THEN (IF file.has_result
                   THEN [raised |-> "", found |-> TRUE, value |-> file.result]
                   ELSE [None EXCEPT !.raised = "KeyError"])
             ELSE None

\* _set_cache(location, result): the file write_text leaves
_set_cache(result, time) == EntryFile(time, result)

\* how the request of WeatherAPITool._run ends: no API key configured, no
\* connection on any attempt, or a response with this status; "200 malformed"
\* is a 200 whose body lacks a field the tool reads
ApiOutcomes == {"no key", "unreachable", "200", "200 malformed", "401", "400", "500"}

\* how persisting a cache entry ends: written ("none") or an OSError ("write")
DiskFaults == {"none", "write"}

\* the text WeatherAPITool._run builds from a 200 response
WeatherText(location) == "The current weather data in " \o location \o " is: 18 C"

\* raw outputs of the EU AI Act task handed to the caching callback
EuAiActRawOutputs == {"{}", "not json"}

\* the last cache operation: what it was called with and what it did
NoCall == [op |-> "", location |-> "", seen |-> NoFile, time |-> 0, fault |-> "none",
           raised |-> "", hit |-> FALSE, requested |-> FALSE, stored |-> FALSE,
           result |-> ""]

\* ----------------------------------------------------------------- guardrails
\* what a guardrail returned: `exc` names an exception that left it, `caught`
\* the one its handlers turned into a rejection
NoVerdict == [guardrail |-> "", exc |-> "", caught |-> "", valid |-> FALSE, payload |-> ""]

\* return (valid, payload) inside the try block
Return(valid, payload) ==
    [exc |-> "", caught |-> "", valid |-> valid, payload |-> payload]
\* an exception raised inside the try block, with str(e)
Raised(exc, message) ==
    [exc |-> exc, caught |-> "", valid |-> FALSE, payload |-> message]
\* every check so far passed
Pass == Return(TRUE, "")

\* type(v).__name__
TypeName(v) ==
    CASE v.t = "dict" -> "dict" [] v.t = "list" -> "list" [] v.t = "str" -> "str"
      [] v.t = "num" -> "int" [] v.t = "bool" -> "bool" [] OTHER -> "NoneType"

\* a in b, for two strings
IsSubstring(a, b) ==
    \E i \in 1..(Len(b) - Len(a) + 1) : SubSeq(b, i, i + Len(a) - 1) = a

\* `field in container` is defined for a dict (its keys), a list (its items)
\* and a string (its substrings); for another value it raises TypeError
CanContain(container) == container.t \in {"dict", "list", "str"}
Contains(container, field) ==
    CASE container.t = "dict" -> field \in DOMAIN container.m
      [] container.t = "list" ->
           \E i \in DOMAIN container.m : container.m[i].t = "str" /\ container.m[i].s = field
      [] container.t = "str" -> IsSubstring(field, container.s)
      [] OTHER -> FALSE
NotIterable(v) ==
    Raised("TypeError", "argument of type '" \o TypeName(v) \o "' is not iterable")
\* v.get(...) on a value that is no dict
NoAttribute(v) ==
    Raised("AttributeError", "'" \o TypeName(v) \o "' object has no attribute 'get'")
\* v['field'] on a list or a string
BadIndex(v) ==
    Raised("TypeError",
           IF v.t = "list" THEN "list indices must be integers or slices, not str"
           ELSE "string indices must be integers, not 'str'")

\* d.get(key) of a dict
get(d, key) == IF key \in DOMAIN d.m THEN d.m[key] ELSE JNull

\* ', '.join([field for field in required if field not in container])
RECURSIVE JoinMissing(_, _, _, _)
JoinMissing(required, container, i, first) ==
    IF i > Len(required) THEN ""
    ELSE IF Contains(container, required[i])
         THEN JoinMissing(required, container, i + 1, first)
         ELSE (IF first THEN "" ELSE ", ") \o required[i]
              \o JoinMissing(required, container, i + 1, FALSE)
missing(required, container) == JoinMissing(required, container, 1, TRUE)

\* the first of the fields, in order, whose value d.get(field) is not of the
\* type, or "" when every one is
RECURSIVE FirstNotOfType(_, _, _, _)
FirstNotOfType(d, fields, type, i) ==
    IF i > Len(fields) THEN ""
    ELSE IF get(d, fields[i]).t # type THEN fields[i]
    ELSE FirstNotOfType(d, fields, type, i + 1)

\* for idx, item in enumerate(items): the item must be an object holding the
\* required fields; the verdict of the first item that fails, else Pass
ItemsCheck(items, name, required) ==
    LET bad == {i \in DOMAIN items.m :
                   \/ items.m[i].t # "dict"
                   \/ missing(required, items.m[i]) # ""}
    IN  IF bad = {} THEN Pass
        ELSE LET i == CHOOSE x \in bad : \A y \in bad : x <= y
             IN  IF items.m[i].t # "dict"
                 THEN Return(FALSE, name \o "[" \o ToString(i - 1) \o "] must be an object.")
                 ELSE Return(FALSE, name \o "[" \o ToString(i - 1) \o "] is missing fields: "
                                    \o missing(required, items.m[i]) \o ".")

\* the opening of five guardrails: the one top-level field must be present
\* and an object
TopSection(data, field) ==
    IF ~CanContain(data) THEN NotIterable(data)
    ELSE IF missing(<<field>>, data) # ""
    THEN Return(FALSE, "Missing required fields: " \o missing(<<field>>, data)
                       \o ". Please ensure all fields are included.")
    ELSE IF data.t # "dict" THEN NoAttribute(data)
    ELSE IF get(data, field).t # "dict"
    THEN Return(FALSE, "The '" \o field \o "' field must be an object.")
    ELSE Pass

\* a sub-object must be an object that holds the required fields
SubObject(parent, field, required, not_object, please) ==
    IF get(parent, field).t # "dict" THEN Return(FALSE, not_object)
    ELSE IF missing(required, parent.m[field]) # ""
    THEN Return(FALSE, field \o " is missing fields: "
                       \o missing(required, parent.m[field]) \o "." \o please)
    ELSE Pass

\* the reasons of the except json.JSONDecodeError clauses
NotJsonLong == "Output is not valid JSON. Please return a properly formatted JSON string."
NotJsonShort == "Output is not valid JSON."

\* mutant: only except json.JSONDecodeError, no except Exception
Handlers_json_only(outcome, json_reason, suffix) ==
    IF outcome.exc = "JSONDecodeError"
    THEN [Return(FALSE, json_reason) EXCEPT !.caught = outcome.exc]
    ELSE outcome

\* mutant: one except Exception clause for every exception
Handlers_generic(outcome, json_reason, suffix) ==
    IF outcome.exc = "" THEN outcome
    ELSE [Return(FALSE, "Validation error: " \o outcome.payload \o suffix)
             EXCEPT !.caught = outcome.exc]

\* except json.JSONDecodeError: return (False, json_reason)
\* except Exception as e: return (False, f"Validation error: {str(e)}" + suffix)
Handlers(outcome, json_reason, suffix) ==
    IF outcome.exc = "" THEN outcome
    ELSE IF outcome.exc = "JSONDecodeError"
    THEN [Return(FALSE, json_reason) EXCEPT !.caught = outcome.exc]
    ELSE [Return(FALSE, "Validation error: " \o outcome.payload \o suffix)
             EXCEPT !.caught = outcome.exc]

PleaseCheck == ". Please check the output format."

\* json.loads(result.raw) failing inside the try block
DecodeError == Raised("JSONDecodeError", "Expecting value")

weather_checks(raw, data) ==
    LET top == TopSection(data, "weather_analysis")
    IN  IF data.t = "JSONDecodeError" THEN DecodeError
        ELSE IF top # Pass THEN top
        ELSE
        LET weather_analysis == data.m["weather_analysis"]
            fields == missing(<<"summary", "location", "date", "weather_data",
                                "air_quality", "agricultural_assessment">>, weather_analysis)
            weather == SubObject(weather_analysis, "weather_data",
                          <<"temperature_c", "feels_like_c", "condition", "humidity", "wind_kph">>,
                          "The 'weather_data' field must be an object. Please return valid weather data.",
                          " Please ensure all weather fields are included.")
            air == SubObject(weather_analysis, "air_quality",
                          <<"aqi", "pm2_5", "pm10", "o3", "no2", "so2", "co">>,
                          "The 'air_quality' field must be an object. Please return valid air quality data.",
                          " Please ensure all air quality fields are included.")
            assessed == SubObject(weather_analysis, "agricultural_assessment",
                          <<"flight_clearance_status", "disease_risk_level",
                            "disease_risk_percentage", "nitrogen_volatilization_risk",
                            "optimal_operations">>,
                          "The 'agricultural_assessment' field must be an object. Please return valid assessment data.",
                          " Please ensure all assessment fields are included.")
            assessment == weather_analysis.m["agricultural_assessment"]
        IN  IF fields # ""
            THEN Return(FALSE, "weather_analysis is missing fields: " \o fields
                               \o ". Please ensure all fields are included.")
            ELSE IF weather # Pass THEN weather
            ELSE IF air # Pass THEN air
            ELSE IF assessed # Pass THEN assessed
            ELSE IF assessment.m["flight_clearance_status"].t # "bool"
            THEN Return(FALSE, "flight_clearance_status must be a boolean (true/false).")
            ELSE IF ~(/\ assessment.m["disease_risk_level"].t = "str"
                      /\ assessment.m["disease_risk_level"].s \in {"Low", "Medium", "High"})
            THEN Return(FALSE, "disease_risk_level must be one of: Low, Medium, High.")
            ELSE IF assessment.m["optimal_operations"].t # "list"
            THEN Return(FALSE, "optimal_operations must be an array of strings.")
            ELSE Return(TRUE, raw)

sensor_checks(raw, data) ==
    LET top == TopSection(data, "sensor_analysis")
    IN  IF data.t = "JSONDecodeError" THEN DecodeError
        ELSE IF top # Pass THEN top
        ELSE
        LET sensor_analysis == data.m["sensor_analysis"]
            fields == missing(<<"summary", "farm_id", "readings_count", "analysis_period",
                                "zones_analyzed", "soil_health_metrics",
                                "irrigation_recommendations", "environmental_correlations",
                                "alerts">>, sensor_analysis)
            metrics == ItemsCheck(sensor_analysis.m["soil_health_metrics"], "soil_health_metrics",
                          <<"zone_name", "average_moisture", "average_temperature",
                            "average_ph", "status">>)
            irrigation == ItemsCheck(sensor_analysis.m["irrigation_recommendations"],
                          "irrigation_recommendations",
                          <<"zone", "action", "priority", "reasoning">>)
        IN  IF fields # ""
            THEN Return(FALSE, "sensor_analysis is missing fields: " \o fields
                               \o ". Please ensure all fields are included.")
            ELSE IF sensor_analysis.m["zones_analyzed"].t # "list"
            THEN Return(FALSE, "The 'zones_analyzed' field must be an array of zone names.")
            ELSE IF sensor_analysis.m["soil_health_metrics"].t # "list"
            THEN Return(FALSE, "The 'soil_health_metrics' field must be an array of soil health objects.")
            ELSE IF DOMAIN sensor_analysis.m["soil_health_metrics"].m = {}
            THEN Return(FALSE, "soil_health_metrics must contain at least one zone analysis.")
            ELSE IF metrics # Pass THEN metrics
            ELSE IF sensor_analysis.m["irrigation_recommendations"].t # "list"
            THEN Return(FALSE, "The 'irrigation_recommendations' field must be an array.")
            ELSE IF irrigation # Pass THEN irrigation
            ELSE IF sensor_analysis.m["environmental_correlations"].t # "list"
            THEN Return(FALSE, "The 'environmental_correlations' field must be an array of strings.")
            ELSE IF sensor_analysis.m["alerts"].t # "list"
            THEN Return(FALSE, "The 'alerts' field must be an array of strings.")
            ELSE Return(TRUE, raw)

\* the loop over data['images']: `field not in image` raises for an image
\* that is a number, a boolean or null
ImagesCheck(images) ==
    LET required == <<"key", "content_type", "s3_uri", "presigned_url">>
        bad == {i \in DOMAIN images.m :
                   ~CanContain(images.m[i]) \/ missing(required, images.m[i]) # ""}
    IN  IF bad = {} THEN Pass
        ELSE LET i == CHOOSE x \in bad : \A y \in bad : x <= y
             IN  IF ~CanContain(images.m[i]) THEN NotIterable(images.m[i])
                 ELSE Return(FALSE, "Image at index " \o ToString(i - 1)
                                    \o " is missing fields: " \o missing(required, images.m[i])
                                    \o ". Please ensure all image fields are included.")

\* str(value) of a JSON value inside an f-string, for the values a count takes
PyStr(v) ==
    CASE v.t = "num" -> ToString(v.n) [] v.t = "str" -> v.s
      [] v.t = "bool" -> (IF v.n = 1 THEN "True" ELSE "False")
      [] v.t = "null" -> "None" [] OTHER -> json_dumps(v)

image_checks(raw, data) ==
    LET fields == missing(<<"bucket_name", "num_images_found", "region", "images">>, data)
    IN  IF data.t = "JSONDecodeError" THEN DecodeError
        ELSE IF ~CanContain(data) THEN NotIterable(data)
        ELSE IF fields # ""
        THEN Return(FALSE, "Missing required fields: " \o fields
                           \o ". Please ensure all fields are included.")
        ELSE IF data.t # "dict" THEN BadIndex(data)
        ELSE IF data.m["images"].t # "list"
        THEN Return(FALSE, "The 'images' field must be a list. Please return a valid array of images.")
        ELSE IF DOMAIN data.m["images"].m = {}
        THEN Return(FALSE, "No images found in the response. Please ensure the API returned at least one image.")
        ELSE IF ImagesCheck(data.m["images"]) # Pass THEN ImagesCheck(data.m["images"])
        ELSE IF ~(/\ data.m["num_images_found"].t \in {"num", "bool"}
                  /\ data.m["num_images_found"].n = Len(data.m["images"].m))
        THEN Return(FALSE, "num_images_found (" \o PyStr(data.m["num_images_found"])
                           \o ") does not match actual image count ("
                           \o ToString(Len(data.m["images"].m))
                           \o "). Please correct the count.")
        ELSE Return(TRUE, raw)

\* for field in required: isinstance(data[field], dict); the first that is not
RECURSIVE FirstNotObject(_, _, _)
FirstNotObject(data, required, i) ==
    IF i > Len(required) THEN ""
    ELSE IF data.m[required[i]].t # "dict" THEN required[i]
    ELSE FirstNotObject(data, required, i + 1)

\* mutant: the sub-sections must also hold something
combined_checks_nonempty(raw, data) ==
    LET required == <<"weather_analysis", "sensor_analysis", "vision_analysis">>
    IN  IF data.t = "JSONDecodeError" THEN DecodeError
        ELSE IF ~CanContain(data) THEN NotIterable(data)
        ELSE IF missing(required, data) # ""
        THEN Return(FALSE, "Missing required fields: " \o missing(required, data)
                           \o ". Please ensure all analysis sections are included.")
        ELSE IF data.t # "dict" THEN BadIndex(data)
        ELSE IF FirstNotObject(data, required, 1) # ""
        THEN Return(FALSE, "The '" \o FirstNotObject(data, required, 1)
                           \o "' field must be an object.")
        ELSE IF \E i \in 1..Len(required) : DOMAIN data.m[required[i]].m = {}
        THEN Return(FALSE, "An analysis section is empty.")
        ELSE Return(TRUE, raw)

combined_checks(raw, data) ==
    LET required == <<"weather_analysis", "sensor_analysis", "vision_analysis">>
    IN  IF data.t = "JSONDecodeError" THEN DecodeError
        ELSE IF ~CanContain(data) THEN NotIterable(data)
        ELSE IF missing(required, data) # ""
        THEN Return(FALSE, "Missing required fields: " \o missing(required, data)
                           \o ". Please ensure all analysis sections are included.")
        ELSE IF data.t # "dict" THEN BadIndex(data)
        ELSE IF FirstNotObject(data, required, 1) # ""
        THEN Return(FALSE, "The '" \o FirstNotObject(data, required, 1)
                           \o "' field must be an object.")
        ELSE Return(TRUE, raw)

compliance_checks(raw, data) ==
    LET top == TopSection(data, "compliance_analysis")
    IN  IF data.t = "JSONDecodeError" THEN DecodeError
        ELSE IF top # Pass THEN top
        ELSE
        LET compliance_analysis == data.m["compliance_analysis"]
            fields == missing(<<"summary", "topic", "date", "classification",
                                "operational_impact", "nitrogen_emissions_relevance",
                                "recommendations">>, compliance_analysis)
        IN  IF fields # ""
            THEN Return(FALSE, "compliance_analysis is missing fields: " \o fields
                               \o ". Please ensure all fields are included.")
            ELSE IF ~(/\ compliance_analysis.m["classification"].t = "str"
                      /\ compliance_analysis.m["classification"].s
                            \in {"Positive", "Neutral", "Negative"})
            THEN Return(FALSE, "classification must be one of: Positive, Neutral, Negative.")
            ELSE IF compliance_analysis.m["recommendations"].t # "list"
            THEN Return(FALSE, "The 'recommendations' field must be an array of strings.")
            ELSE Return(TRUE, raw)

eu_ai_act_checks(raw, data) ==
    IF data.t = "JSONDecodeError" THEN DecodeError
    ELSE IF ~CanContain(data) THEN NotIterable(data)
    ELSE IF ~Contains(data, "eu_ai_act_assessment")
    THEN Return(FALSE, "Missing required 'eu_ai_act_assessment' field.")
    ELSE IF data.t # "dict" THEN NoAttribute(data)
    ELSE IF data.m["eu_ai_act_assessment"].t # "dict"
    THEN Return(FALSE, "The 'eu_ai_act_assessment' field must be an object.")
    ELSE
    LET assessment == data.m["eu_ai_act_assessment"]
        fields == missing(<<"summary", "system_classification", "risk_level",
                            "transparency_obligations", "human_oversight_requirements",
                            "data_governance_requirements", "documentation_requirements",
                            "logging_requirements", "security_requirements",
                            "compliance_gaps", "action_items",
                            "overall_compliance_status">>, assessment)
        not_list == FirstNotOfType(assessment,
                        <<"transparency_obligations", "human_oversight_requirements",
                          "data_governance_requirements", "documentation_requirements",
                          "logging_requirements", "security_requirements",
                          "compliance_gaps", "action_items">>, "list", 1)
    IN  IF fields # ""
        THEN Return(FALSE, "eu_ai_act_assessment is missing fields: " \o fields \o ".")
        ELSE IF ~(/\ assessment.m["risk_level"].t = "str"
                  /\ assessment.m["risk_level"].s
                        \in {"minimal_risk", "limited_risk", "high_risk"})
        THEN Return(FALSE, "risk_level must be one of: minimal_risk, limited_risk, high_risk.")
        ELSE IF ~(/\ assessment.m["overall_compliance_status"].t = "str"
                  /\ assessment.m["overall_compliance_status"].s
                        \in {"Compliant", "Partially Compliant", "Non-Compliant"})
        THEN Return(FALSE, "overall_compliance_status must be one of: Compliant, Partially Compliant, Non-Compliant.")
        ELSE IF not_list # "" THEN Return(FALSE, not_list \o " must be an array.")
        ELSE Return(TRUE, raw)

\* the loop of validate_combined_compliance_output: each field in turn must be
\* present, then an object
RECURSIVE CombinedComplianceLoop(_, _, _, _)
CombinedComplianceLoop(data, raw, required, i) ==
    IF i > Len(required) THEN Return(TRUE, raw)
    ELSE IF ~Contains(data, required[i])
    THEN Return(FALSE, "Missing required field: '" \o required[i] \o "'.")
    ELSE IF data.t # "dict" THEN BadIndex(data)
    ELSE IF data.m[required[i]].t # "dict"
    THEN Return(FALSE, "'" \o required[i] \o "' must be an object.")
    ELSE CombinedComplianceLoop(data, raw, required, i + 1)

combined_compliance_checks(raw, data) ==
    IF data.t = "JSONDecodeError" THEN DecodeError
    ELSE IF ~CanContain(data) THEN NotIterable(data)
    ELSE CombinedComplianceLoop(data, raw,
             <<"compliance_analysis", "eu_ai_act_assessment">>, 1)

master_checks(raw, data) ==
    LET top == TopSection(data, "master_analysis")
    IN  IF data.t = "JSONDecodeError" THEN DecodeError
        ELSE IF top # Pass THEN top
        ELSE
        LET master_analysis == data.m["master_analysis"]
            fields == missing(<<"executive_summary", "critical_alerts", "vision_summary",
                                "weather_summary", "sensor_summary", "compliance_summary",
                                "cross_functional_insights", "strategic_recommendations",
                                "operational_priorities", "overall_farm_status">>,
                              master_analysis)
            not_list == FirstNotOfType(master_analysis,
                            <<"critical_alerts", "cross_functional_insights",
                              "strategic_recommendations", "operational_priorities">>,
                            "list", 1)
        IN  IF fields # ""
            THEN Return(FALSE, "master_analysis is missing fields: " \o fields
                               \o ". Please ensure all fields are included.")
            ELSE IF not_list # ""
            THEN Return(FALSE, "The '" \o not_list \o "' field must be an array of strings.")
            ELSE IF ~(/\ master_analysis.m["overall_farm_status"].t = "str"
                      /\ master_analysis.m["overall_farm_status"].s
                            \in {"Excellent", "Good", "Attention Needed", "Critical"})
            THEN Return(FALSE, "overall_farm_status must be one of: Excellent, Good, Attention Needed, Critical.")
            ELSE Return(TRUE, raw)

\* a sub-object of financial_analysis must be an object whose one list field
\* is a list
ObjectWithList(parent, field, list_field) ==
    IF get(parent, field).t # "dict"
    THEN Return(FALSE, "The '" \o field \o "' field must be an object.")
    ELSE IF get(parent.m[field], list_field).t # "list"
    THEN Return(FALSE, field \o "." \o list_field \o " must be an array.")
    ELSE Pass

financial_checks(raw, data) ==
    LET top == TopSection(data, "financial_analysis")
    IN  IF data.t = "JSONDecodeError" THEN DecodeError
        ELSE IF top # Pass THEN top
        ELSE
        LET financial_analysis == data.m["financial_analysis"]
            fields == missing(<<"summary", "farm_id", "analysis_period", "total_days_analyzed",
                                "financial_overview", "revenue_analysis", "expense_analysis",
                                "operational_analysis", "roi_by_zone", "cash_flow_analysis",
                                "forecasts", "recommendations", "alerts">>, financial_analysis)
            overview == SubObject(financial_analysis, "financial_overview",
                            <<"total_revenue", "total_expenses", "total_operational_costs",
                              "net_profit", "profit_margin_percentage">>,
                            "The 'financial_overview' field must be an object.", "")
            revenue == ObjectWithList(financial_analysis, "revenue_analysis", "revenue_by_type")
            expense == ObjectWithList(financial_analysis, "expense_analysis", "expense_by_category")
            operational == ObjectWithList(financial_analysis, "operational_analysis",
                                          "operations_by_type")
            roi == ItemsCheck(financial_analysis.m["roi_by_zone"], "roi_by_zone",
                              <<"zone", "revenue", "costs", "roi_percentage", "status">>)
            cash_flow == SubObject(financial_analysis, "cash_flow_analysis",
                            <<"cash_inflow", "cash_outflow", "net_cash_flow", "cash_flow_status">>,
                            "The 'cash_flow_analysis' field must be an object.", "")
            forecast == SubObject(financial_analysis, "forecasts",
                            <<"projected_monthly_revenue", "projected_monthly_expenses",
                              "projected_monthly_profit">>,
                            "The 'forecasts' field must be an object.", "")
        IN  IF fields # ""
            THEN Return(FALSE, "financial_analysis is missing fields: " \o fields
                               \o ". Please ensure all fields are included.")
            ELSE IF overview # Pass THEN overview
            ELSE IF revenue # Pass THEN revenue
            ELSE IF expense # Pass THEN expense
            ELSE IF operational # Pass THEN operational
            ELSE IF financial_analysis.m["roi_by_zone"].t # "list"
            THEN Return(FALSE, "The 'roi_by_zone' field must be an array.")
            ELSE IF roi # Pass THEN roi
            ELSE IF cash_flow # Pass THEN cash_flow
            ELSE IF forecast # Pass THEN forecast
            ELSE IF financial_analysis.m["recommendations"].t # "list"
            THEN Return(FALSE, "The 'recommendations' field must be an array of strings.")
            ELSE IF financial_analysis.m["alerts"].t # "list"
            THEN Return(FALSE, "The 'alerts' field must be an array of strings.")
            ELSE Return(TRUE, raw)

\* the raw outputs the guardrails are given
GuardrailInputs == ParseTexts \cup NonJsonTexts

\* ------------------------------------------------------- retrieval adapters
\* the filters of MissionLogsRetriever._run, "" for one that is not supplied
FilterNames == {"farm_id", "drone_id", "mission_type", "mission_status"}
NoFilters == [farm_id |-> "", drone_id |-> "", mission_type |-> "", mission_status |-> ""]

\* what a retrieval adapter did and returned: the queries it sent with what
\* the store answered, the seconds it slept between them, the exception that
\* left _run (`raised`), and the result's success, error and record count
NoRetrieval == [adapter |-> "", queries |-> <<>>, attempts |-> 0, delays |-> <<>>,
                raised |-> "", success |-> FALSE, error |-> "", records |-> 0,
                params |-> NoFilters, missions |-> {}]

\* max_retries of the query loop
max_retries == 3

\* what the store does with one query: it returns items, returns none, or
\* raises a client error of the given code
QueryOutcomes ==
    {"items", "empty", "ResourceNotFoundException", "AccessDeniedException",
     "UnrecognizedClientException", "ThrottlingException"}
QueryFailures == QueryOutcomes \ {"items", "empty"}

\* the tables FinanceRetriever._run queries, in order
FinanceTables == <<"farm-revenue-table", "farm-expenses-table",
                   "drone-operational-costs-table">>

\* len(response.get('Items', []))
ItemCount(answer) == IF answer = "items" THEN 1 ELSE 0

\* for attempt in range(max_retries): query, break on an answer; on an
\* exception sleep 2 ** attempt and go on, or re-raise on the last attempt
RECURSIVE RetryLoop(_, _, _)
RetryLoop(table, answers, attempt) ==
    LET query == [table |-> table, outcome |-> answers[attempt + 1]]
    IN  IF query.outcome \notin QueryFailures
        THEN [queries |-> <<query>>, delays |-> <<>>, raised |-> "",
              response |-> query.outcome]
        ELSE IF attempt < max_retries - 1
        THEN LET rest == RetryLoop(table, answers, attempt + 1)
             IN  [rest EXCEPT !.queries = <<query>> \o rest.queries,
                              !.delays = <<2 ^ attempt>> \o rest.delays]
        ELSE [queries |-> <<query>>, delays |-> <<>>, raised |-> query.outcome,
              response |-> ""]

\* the except clause of _run: the error of the failure result, by str(e)
ErrorOf(exception, generic) ==
    IF exception = "ResourceNotFoundException" THEN "DynamoDB table not found"
    ELSE IF exception \in {"AccessDeniedException", "UnrecognizedClientException"}
    THEN "AWS credentials error"
    ELSE generic

\* the result returned when boto3 could not be imported
NoBoto3(adapter) ==
    [NoRetrieval EXCEPT !.adapter = adapter, !.error = "boto3 library not installed"]

\* SensorDataRetriever._run and DynamoDBVisionRetriever._run: one query in
\* the retry loop, the failure of the last attempt mapped by the except clause
RetrievedWithRetry(adapter, table, generic, boto3, answers) ==
    LET loop == RetryLoop(table, answers, 0)
    IN  IF ~boto3 THEN NoBoto3(adapter)
        ELSE [adapter |-> adapter, queries |-> loop.queries,
              attempts |-> Len(loop.queries), delays |-> loop.delays, raised |-> "",
              success |-> loop.raised = "",
              error |-> IF loop.raised = "" THEN "" ELSE ErrorOf(loop.raised, generic),
              records |-> ItemCount(loop.response), params |-> NoFilters, missions |-> {}]

\* FinanceRetriever._query_table: one query; an exception is printed and
\* an empty list returned
_query_table(table, answer) ==
    [query |-> [table |-> table, outcome |-> answer], items |-> ItemCount(answer)]

\* FinanceRetriever._run: the three tables queried once each
FinanceRetriever_run(boto3, answers) ==
    LET revenue == _query_table(FinanceTables[1], answers[1])
        expense == _query_table(FinanceTables[2], answers[2])
        operational == _query_table(FinanceTables[3], answers[3])
    IN  IF ~boto3 THEN NoBoto3("FinanceRetriever")
        ELSE [adapter |-> "FinanceRetriever",
              queries |-> <<revenue.query, expense.query, operational.query>>,
              attempts |-> 3, delays |-> <<>>, raised |-> "", success |-> TRUE,
              error |-> "",
              records |-> revenue.items + expense.items + operational.items,
              params |-> NoFilters, missions |-> {}]

\* the missions of the MissionLogs table, and the filters a call may supply
MissionItems ==
    [farm_id : {"FARM-001", "FARM-002"}, drone_id : {"DRONE-1", "DRONE-2"},
     mission_type : {"surveillance", "spraying"}, mission_status : {"completed", "failed"}]
MissionFilters ==
    [farm_id : {"", "FARM-001"}, drone_id : {"", "DRONE-1"},
     mission_type : {"", "spraying"}, mission_status : {"", "completed"}]

\* the attributes the query or scan of the call selects by: the first of the
\* four branches whose parameters are supplied
QueryKeys(params) ==
    IF params.mission_status # "" THEN {"mission_status"}
    ELSE IF params.farm_id # "" /\ params.mission_type # "" THEN {"farm_id", "mission_type"}
    ELSE IF params.drone_id # "" THEN {"drone_id"}
    ELSE IF params.farm_id # "" THEN {"farm_id"}
    ELSE {}

\* response.get('Items', []) and the filters applied to it afterwards: the
\* mission type when it was not a key of the query; the test before the
\* status filter is never true
FilteredItems(params, answer) ==
    LET items == IF answer = "items"
                 THEN {item \in MissionItems :
                          \A name \in QueryKeys(params) : item[name] = params[name]}
                 ELSE {}
    IN  IF params.mission_type # "" /\ ~(params.farm_id # "" /\ params.mission_type # "")
        THEN {item \in items : item.mission_type = params.mission_type}
        ELSE items

\* MissionLogsRetriever._run: no query without one of farm_id, drone_id and
\* mission_status; else one query, whose exception the except clause maps
MissionLogsRetriever_run(boto3, params, answer) ==
    LET query == [table |-> "MissionLogs", outcome |-> answer]
        items == FilteredItems(params, answer)
    IN  IF ~boto3 THEN NoBoto3("MissionLogsRetriever")
        ELSE IF QueryKeys(params) = {}
        THEN [NoRetrieval EXCEPT !.adapter = "MissionLogsRetriever",
                                 !.error = "Insufficient query parameters",
                                 !.params = params]
        ELSE [adapter |-> "MissionLogsRetriever", queries |-> <<query>>, attempts |-> 1,
              delays |-> <<>>, raised |-> "", success |-> answer \notin QueryFailures,
              error |-> IF answer \in QueryFailures
                        THEN ErrorOf(answer, "Failed to retrieve mission logs") ELSE "",
              records |-> Cardinality(items), params |-> params, missions |-> items]

\* ------------------------------------------------------------- reports API
\* S3_BUCKET when the variable is not set, and when it is
NoBucket == ""
BucketName == "terra-hawk-reports"

\* the report types the frontend expects
REPORT_TYPES == <<"master_report", "vision_analysis", "sensor_analysis",
                  "weather_report", "compliance_report">>

\* text.startswith(prefix), text.endswith(suffix)
StartsWith(text, prefix) ==
    Len(text) >= Len(prefix) /\ SubSeq(text, 1, Len(prefix)) = prefix
EndsWith(text, suffix) ==
    Len(text) >= Len(suffix)
    /\ SubSeq(text, Len(text) - Len(suffix) + 1, Len(text)) = suffix

\* key.rsplit("/", 1)[-1]
RECURSIVE FileNameFrom(_, _)
FileNameFrom(key, i) ==
    IF i = 0 \/ SubSeq(key, i, i) = "/" THEN SubSeq(key, i + 1, Len(key))
    ELSE FileNameFrom(key, i - 1)
FileName(key) == FileNameFrom(key, Len(key))

\* the objects of the bucket after a sequence of puts: a put replaces the
\* object of the same key
Objects(puts) ==
    {puts[i] : i \in {j \in DOMAIN puts :
                        \A k \in DOMAIN puts : puts[k].key = puts[j].key => k <= j}}

\* s3.list_objects_v2(Bucket=BUCKET, Prefix=prefix).get("Contents", [])
list_objects_v2(puts, prefix) == {obj \in Objects(puts) : StartsWith(obj.key, prefix)}

\* files.sort(key=Key, reverse=True); files[0]: the keys of one report type in
\* one partition differ in the fixed-width timestamp alone, so the greatest
\* key is the one of the latest second
Latest(files) == CHOOSE obj \in files : \A other \in files : other.second <= obj.second

\* how a storage call of the API ends: it answers, it raises ClientError, or it
\* raises an exception that is no ClientError (no connection to the endpoint;
\* for the read also bytes that are no UTF-8)
StorageOutcomes == {"ok", "ClientError", "EndpointConnectionError"}

\* no request answered
NoEvent == [httpMethod |-> "", farm_id |-> "", report_type |-> "", date |-> "",
            listing |-> "", reading |-> ""]
NoResponse ==
    [request |-> NoEvent, status |-> 0, error |-> "", key |-> "", content |-> JNull,
     reports |-> <<>>, raised |-> "", calls |-> <<>>]

\* _resp(status, body) with an error body; an exception leaving the handler
_resp(status, error, calls) ==
    [NoResponse EXCEPT !.status = status, !.error = error, !.calls = calls]
Escaped(exception, calls) == [NoResponse EXCEPT !.raised = exception, !.calls = calls]

\* the end of _fetch_report once the latest object was read
Fetched(latest_key, parsed, calls) ==
    IF parsed.t = "JSONDecodeError" THEN _resp(500, "read_failed", calls)
    ELSE [NoResponse EXCEPT !.status = 200, !.key = latest_key, !.content = parsed,
                            !.calls = calls]

\* mutant: the report under the least key is fetched
Oldest(files) == CHOOSE obj \in files : \A other \in files : obj.second <= other.second

_fetch_report(puts, farm_id, report_type, date, listing, reading) ==
    LET prefix == farm_id \o "/" \o date \o "/reports/" \o report_type \o "_"
        json_files == {obj \in list_objects_v2(puts, prefix) : EndsWith(obj.key, ".json")}
    IN  CASE listing = "ClientError" -> _resp(500, "ClientError", <<"list_objects_v2">>)
          [] listing = "EndpointConnectionError" -> Escaped(listing, <<"list_objects_v2">>)
          [] json_files = {} -> _resp(404, "report_not_found", <<"list_objects_v2">>)
          [] reading = "ClientError" ->
               _resp(500, "read_failed", <<"list_objects_v2", "get_object">>)
          [] reading = "EndpointConnectionError" ->
               Escaped(reading, <<"list_objects_v2", "get_object">>)
          [] OTHER -> Fetched(Latest(json_files).key, json_loads(Latest(json_files).body),
                              <<"list_objects_v2", "get_object">>)

\* the latest .json object of every expected report type that has one
RECURSIVE LatestOfTypes(_, _)
LatestOfTypes(contents, i) ==
    IF i > Len(REPORT_TYPES) THEN <<>>
    ELSE LET matches == {obj \in contents : /\ StartsWith(FileName(obj.key), REPORT_TYPES[i])
                                            /\ EndsWith(obj.key, ".json")}
         IN  (IF matches = {} THEN <<>> ELSE <<Latest(matches).key>>)
             \o LatestOfTypes(contents, i + 1)

_list_reports(puts, farm_id, date, listing) ==
    LET prefix == farm_id \o "/" \o date \o "/reports/"
    IN  CASE listing = "ClientError" -> _resp(500, "ClientError", <<"list_objects_v2">>)
          [] listing = "EndpointConnectionError" -> Escaped(listing, <<"list_objects_v2">>)
          [] OTHER -> [NoResponse EXCEPT !.status = 200,
                           !.reports = LatestOfTypes(list_objects_v2(puts, prefix), 1),
                           !.calls = <<"list_objects_v2">>]

\* handler(event, context): farm_id and report_type are "" when neither the
\* path parameters nor the path give them, date is "" when the query has none
handler(puts, bucket, event, today) ==
    IF bucket = NoBucket THEN _resp(500, "S3_BUCKET not configured", <<>>)
    ELSE IF event.httpMethod = "OPTIONS" THEN _resp(200, "", <<>>)
    ELSE IF event.farm_id = "" THEN _resp(400, "farm_id is required", <<>>)
    ELSE LET date == IF event.date = "" THEN today ELSE event.date
         IN  IF event.report_type # ""
             THEN _fetch_report(puts, event.farm_id, event.report_type, date,
                                event.listing, event.reading)
             ELSE _list_reports(puts, event.farm_id, date, event.listing)

\* -------------------------------------------------------------- with_retry
\* the greatest max_retries of the model
MaxRetries == 2

\* how a call of the wrapped function ends: it returns, or it raises
FuncOutcomes == {"result", "ValueError", "KeyError"}

\* no wrapped function called
NoInvocation ==
    [pc |-> "", max_retries |-> 0, base_delay |-> 0, max_delay |-> 0, attempt |-> 0,
     calls |-> <<>>, sleeps |-> <<>>, last_exception |-> "", returned |-> "",
     raised |-> ""]

\* the decorators of the model: with_retry(max_retries, base_delay, max_delay)
Decorated ==
    {[NoInvocation EXCEPT !.pc = "try", !.max_retries = retries,
                          !.base_delay = base, !.max_delay = cap] :
        retries \in 0..MaxRetries, base \in {1, 3}, cap \in {1, 3, 30}}

Min(a, b) == IF a <= b THEN a ELSE b

\* mutant: the delay is not capped
Backoff_uncapped(base_delay, attempt, max_delay) == base_delay * (2 ^ attempt)

\* delay = min(base_delay * (2 ** attempt), max_delay)
Backoff(base_delay, attempt, max_delay) == Min(base_delay * (2 ^ attempt), max_delay)

\* ------------------------------------------------------------------ state
VARIABLES
    state,        \* self.state: the value of every Run State slot
    keys,         \* the slots present in self.state
    completed,    \* the flow methods that have returned, in order
    raised,       \* the flow method an exception escaped from, or ""
    method_output,\* what decision returned (the completeness guard's value)
    outcome,      \* the outcome the checkpoint emitted: "", "yes" or "no"
    feedback,     \* result.feedback: the human's text at the checkpoint
    store,        \* the objects put into the bucket, in order
    write_log,    \* the report types submit_reports called the writer for
    successful_writes, \* submit_reports' list of the same name
    failed_writes,     \* submit_reports' list of the same name
    returned,     \* the parts of the string the terminal method returned
    now,          \* the wall clock, in seconds
    cache_file,   \* the EU AI Act cache file
    results,      \* the raw text each analysis returned (crop_result.raw, ...), the
                  \* EU AI Act task of the compliance crew among them
    weather_cache,\* the weather files of CACHE_DIR, by file name
    ticks,        \* the advances of the clock so far
    tool_call,    \* the last cache operation and what it did
    task_output,  \* result.raw: the raw output a guardrail is given
    verdict,      \* the guardrail applied last and what it returned
    retrieval,    \* the last call of a retrieval adapter and what it did
    S3_BUCKET,    \* the environment variable of that name, "" when it is not set
    response,     \* what the reports API answered to the last request
    invocation    \* the call of a function wrapped by with_retry, as far as it got

\* the variables of the flow alone
runvars == <<state, keys, completed, raised, method_output, outcome, feedback,
             write_log, successful_writes, failed_writes, returned, results>>

\* the variables of the caches, of the guardrails, of the retrieval adapters
cachevars == <<weather_cache, tool_call>>
guardvars == <<task_output, verdict>>
retryvars == <<retrieval>>

\* the configuration and the variables of the services beside the flow
servicevars == <<S3_BUCKET, response, invocation>>

\* the variables the flow's methods leave alone
toolvars == <<cachevars, ticks, guardvars, retryvars, servicevars>>

vars == <<state, keys, completed, raised, method_output, outcome, feedback,
          store, write_log, successful_writes, failed_writes, returned, now,
          cache_file, results, toolvars>>

StringSlots == {"date", "vision_analysis", "sensor_analysis", "weather_analysis",
                "crop_and_vision_analysis", "compliance_analysis", "summary"}
Slots == StringSlots \cup {"eu_ai_act_cached", "token_usage"}

\* value shown for a string slot that is not in self.state
Missing == "<missing>"
\* value shown for the result of an analysis that has not returned
NotRun == "<not run>"

EmptyState ==
    [date |-> Missing, vision_analysis |-> Missing, sensor_analysis |-> Missing,
     weather_analysis |-> Missing, crop_and_vision_analysis |-> Missing,
     compliance_analysis |-> Missing, summary |-> Missing,
     eu_ai_act_cached |-> FALSE, token_usage |-> <<>>]

\* the flow before its first method
FlowIdle ==
    /\ state = EmptyState
    /\ keys = {}
    /\ completed = <<>>
    /\ raised = ""
    /\ method_output = ""
    /\ outcome = ""
    /\ feedback = ""
    /\ write_log = <<>>
    /\ successful_writes = <<>>
    /\ failed_writes = <<>>
    /\ returned = <<>>
    /\ results = [crop_crew |-> NotRun, compliance_crew |-> NotRun, master_chief |-> NotRun,
                  eu_ai_act_task |-> NotRun]

\* no cache operation yet, no weather file
CachesIdle ==
    /\ weather_cache = [name \in CacheFileNames |-> NoFile]
    /\ tool_call = NoCall

\* no guardrail applied yet
GuardrailsIdle ==
    /\ task_output = ""
    /\ verdict = NoVerdict

\* no retrieval adapter called yet
RetrieversIdle == retrieval = NoRetrieval

\* no request to the reports API yet
ServicesIdle ==
    /\ response = NoResponse
    /\ invocation = NoInvocation

\* the tools outside the flow at rest
ToolsIdle ==
    /\ CachesIdle
    /\ ticks = 0
    /\ GuardrailsIdle
    /\ RetrieversIdle
    /\ ServicesIdle

\* S3_BUCKET is set
Configured == S3_BUCKET = BucketName

Init ==
    /\ FlowIdle
    /\ S3_BUCKET \in {NoBucket, BucketName}
    /\ store = <<>>
    /\ now \in {RunEpoch + d : d \in 0..MaxDelay}
    /\ cache_file \in CacheFiles
    /\ ToolsIdle

\* ------------------------------------------------------------ flow graph
HasCompleted(method) == \E i \in 1..Len(completed) : completed[i] = method

\* mutant: the two terminal methods listen to each other's outcome
Listens_swapped ==
    [start_flow |-> "",
     initiate_crop_crew |-> "start_flow",
     initiate_compliance_crew |-> "initiate_crop_crew",
     decision |-> "initiate_compliance_crew",
     submit_reports |-> "no",
     no_reports |-> "yes"]

\* mutant: decision listens to the crop stage, beside the compliance stage
Listens_early ==
    [start_flow |-> "",
     initiate_crop_crew |-> "start_flow",
     initiate_compliance_crew |-> "initiate_crop_crew",
     decision |-> "initiate_crop_crew",
     submit_reports |-> "yes",
     no_reports |-> "no"]

\* the trigger each method is declared with: @start(), @listen(method),
\* @listen(outcome)
Listens ==
    [start_flow |-> "",
     initiate_crop_crew |-> "start_flow",
     initiate_compliance_crew |-> "initiate_crop_crew",
     decision |-> "initiate_compliance_crew",
     submit_reports |-> "yes",
     no_reports |-> "no"]

\* a method runs once, after its trigger, while no exception has ended the run
Triggered(method) ==
    /\ raised = ""
    /\ ~HasCompleted(method)
    /\ IF Listens[method] = "" THEN TRUE
       ELSE IF Listens[method] \in {"yes", "no"} THEN outcome = Listens[method]
       ELSE HasCompleted(Listens[method])

\* mutant: the ledger is started anew on every call
_track_usage_reset(st, crew_name, time) ==
    <<[crew |-> crew_name, timestamp |-> time]>>

\* mutant: a call records the stage twice
_track_usage_twice(st, crew_name, time) ==
    st.token_usage \o <<[crew |-> crew_name, timestamp |-> time],
                        [crew |-> crew_name, timestamp |-> time]>>

\* _track_usage: the ledger after the call
_track_usage(st, crew_name, time) ==
    Append(st.token_usage, [crew |-> crew_name, timestamp |-> time])

\* the slots a method reads with self.state[...]; a missing one is a KeyError
CanRead(slots) == slots \subseteq keys

\* an exception leaves the method: the run ends with what was written so far
Raise(method, st, ks) ==
    /\ raised' = method
    /\ state' = st
    /\ keys' = ks
    /\ UNCHANGED <<completed, method_output, outcome, feedback, store, write_log,
                   successful_writes, failed_writes, returned, now, cache_file>>

\* datetime.now().strftime("%A, %d %m %Y"): the day the instant falls in
DateOf(time) == "day " \o ToString(time \div 86400)

\* ------------------------------------------------------------ flow methods
start_flow ==
    /\ Triggered("start_flow")
    /\ UNCHANGED toolvars
    /\ state' = [state EXCEPT !.date = DateOf(now)]
    /\ keys' = keys \cup {"date"}
    /\ completed' = Append(completed, "start_flow")
    /\ UNCHANGED <<raised, method_output, outcome, feedback, store, write_log,
                   successful_writes, failed_writes, returned, now, cache_file,
                   results>>

\* the three slots initiate_crop_crew derives from the parsed output
CropSlots(combined_analysis, st) ==
    [st EXCEPT
        !.vision_analysis = json_dumps(dict_get(combined_analysis, "vision_analysis")),
        !.sensor_analysis = json_dumps(dict_get(combined_analysis, "sensor_analysis")),
        !.weather_analysis = json_dumps(dict_get(combined_analysis, "weather_analysis"))]

\* mutant: the JSONDecodeError is not caught
ParseCropOutput_uncaught(raw) == json_loads(raw)

\* try: json.loads(crop_result.raw); except json.JSONDecodeError: three
\* empty sections
ParseCropOutput(raw) ==
    IF json_loads(raw) = ParseError
    THEN Full(CropKeys, JDict(NoMembers))
    ELSE json_loads(raw)

initiate_crop_crew ==
    /\ Triggered("initiate_crop_crew")
    /\ UNCHANGED toolvars
    /\ \E raw \in CropRawOutputs :
         LET combined_analysis == ParseCropOutput(raw)
         IN  /\ results' = [results EXCEPT !.crop_crew = raw]
             /\ IF combined_analysis.t # "dict"
                THEN Raise("initiate_crop_crew", state, keys)
                ELSE /\ state' = [CropSlots(combined_analysis, state) EXCEPT
                                    !.crop_and_vision_analysis = raw,
                                    !.token_usage = _track_usage(state, "crop_crew", now)]
                     /\ keys' = keys \cup CropKeys
                                     \cup {"crop_and_vision_analysis", "token_usage"}
                     /\ completed' = Append(completed, "initiate_crop_crew")
                     /\ UNCHANGED <<raised, method_output, outcome, feedback, store,
                                    write_log, successful_writes, failed_writes,
                                    returned, now, cache_file>>

\* the cache file after ComplianceCrew._cache_eu_ai_act_result, the callback
\* of eu_ai_act_task: the crew runs each of its three tasks at every kickoff,
\* and the callback stores an output that is JSON
CallbackFile(raw, file, time) ==
    IF json_loads(raw) # ParseError THEN _set_cached_eu_ai_act(raw, time) ELSE file

initiate_compliance_crew ==
    /\ Triggered("initiate_compliance_crew")
    /\ UNCHANGED toolvars
    /\ \E raw \in ComplianceRawOutputs, eu_ai_act_raw \in EuAiActRawOutputs :
         LET cached_eu_ai_act == _get_cached_eu_ai_act(cache_file, now)
             compliance_analysis ==
                 IF json_loads(raw) # ParseError THEN raw
                 ELSE json_dumps(ComplianceParseError)
             hit == cached_eu_ai_act.value # ""
             st == [state EXCEPT !.eu_ai_act_cached = IF hit THEN TRUE ELSE @]
             ks == keys \cup (IF hit THEN {"eu_ai_act_cached"} ELSE {})
         IN  IF cached_eu_ai_act.raised
             THEN Raise("initiate_compliance_crew", state, keys) /\ UNCHANGED results
             ELSE IF ~CanRead({"date"})
             THEN Raise("initiate_compliance_crew", st, ks) /\ UNCHANGED results
             ELSE /\ results' = [results EXCEPT !.compliance_crew = raw,
                                                   !.eu_ai_act_task = eu_ai_act_raw]
                  /\ cache_file' = CallbackFile(eu_ai_act_raw, cache_file, now)
                  /\ state' = [st EXCEPT
                                 !.compliance_analysis = compliance_analysis,
                                 !.token_usage = _track_usage(state, "compliance_crew", now)]
                  /\ keys' = ks \cup {"compliance_analysis", "token_usage"}
                  /\ completed' = Append(completed, "initiate_compliance_crew")
                  /\ UNCHANGED <<raised, method_output, outcome, feedback, store,
                                 write_log, successful_writes, failed_writes,
                                 returned, now>>

\* mutant: the guard looks at the weather slot too
CompletenessGuard_weather(st) ==
    IF \E report \in {st.vision_analysis, st.sensor_analysis, st.compliance_analysis,
                       st.weather_analysis} :
           report = "" \/ report = "{}"
    THEN "no" ELSE "yes"

\* the completeness guard at the end of decision: the value decision returns
CompletenessGuard(st) ==
    IF \E report \in {st.vision_analysis, st.sensor_analysis, st.compliance_analysis} :
           report = "" \/ report = "{}"
    THEN "no" ELSE "yes"

\* @human_feedback(emit=["yes", "no"], llm=..., default_outcome="no")
emit == {"yes", "no"}
default_outcome == "no"

\* the outcome the checkpoint emits: the default when the human gave no
\* answer, else the member of emit the llm collapses the answer to
HumanFeedbackOutcome(raw_feedback, collapsed) ==
    IF raw_feedback = "" THEN default_outcome ELSE collapsed

decision ==
    /\ Triggered("decision")
    /\ UNCHANGED toolvars
    /\ \E raw \in MasterRawOutputs, raw_feedback \in Feedbacks, collapsed \in emit :
         IF ~CanRead({"date", "weather_analysis", "vision_analysis",
                      "sensor_analysis", "compliance_analysis"})
         THEN Raise("decision", state, keys) /\ UNCHANGED results
         ELSE LET st == [state EXCEPT
                            !.summary = raw,
                            !.token_usage = _track_usage(state, "master_chief (direct)", now)]
              IN  /\ results' = [results EXCEPT !.master_chief = raw]
                  /\ state' = st
                  /\ keys' = keys \cup {"summary", "token_usage"}
                  /\ method_output' = CompletenessGuard(st)
                  /\ feedback' = raw_feedback
                  /\ outcome' = HumanFeedbackOutcome(raw_feedback, collapsed)
                  /\ completed' = Append(completed, "decision")
                  /\ UNCHANGED <<raised, store, write_log, successful_writes,
                                 failed_writes, returned, now, cache_file>>

\* ---------------------------------------------------------- report writer
\* the report types S3ReportWriter._run accepts, and those of them it files
\* under reports/drone
drone_report_types ==
    {"mission_plan", "realtime_monitoring", "image_analysis", "maintenance_prediction"}
valid_report_types ==
    {"vision_analysis", "weather_report", "sensor_analysis", "financial_analysis",
     "compliance_report", "master_report"} \cup drone_report_types

\* the key of a report object: farm/date partition, type, write second
ObjectKey(report_type, time, ext) ==
    "FARM-001/" \o DateOf(time)
    \o (IF report_type \in drone_report_types THEN "/reports/drone/" ELSE "/reports/")
    \o report_type \o "_" \o ToString(time) \o "." \o ext

\* a writer that stores the content as the .json sibling whatever it is
JsonBody_unwrapped(report_content) == report_content

\* the body of the .json sibling
JsonBody(report_content) ==
    IF json_loads(report_content) # ParseError THEN report_content
    ELSE json_dumps(Wrapped(report_content))

\* S3ReportWriter._run: [success, puts: the objects it stored]; second is
\* the second of the timestamp in the key; put_object refuses a bucket name
\* that is None before anything is sent
S3ReportWriter_run(bucket_name, report_content, report_type, time, fault) ==
    LET md == [key |-> ObjectKey(report_type, time, "md"), body |-> report_content,
               second |-> time]
        js == [key |-> ObjectKey(report_type, time, "json"),
               body |-> JsonBody(report_content), second |-> time]
    IN  IF report_type \notin valid_report_types THEN [success |-> FALSE, puts |-> <<>>]
        ELSE CASE bucket_name = NoBucket -> [success |-> FALSE, puts |-> <<>>]
               [] fault = "md"   -> [success |-> FALSE, puts |-> <<>>]
               [] fault = "json" -> [success |-> FALSE, puts |-> <<md>>]
               [] OTHER          -> [success |-> TRUE, puts |-> <<md, js>>]

\* ------------------------------------------------------- terminal methods
reports_to_write(st) ==
    << [content |-> st.vision_analysis, type |-> "vision_analysis", name |-> "Vision Analysis"],
       [content |-> st.sensor_analysis, type |-> "sensor_analysis", name |-> "Sensor Analysis"],
       [content |-> st.weather_analysis, type |-> "weather_report", name |-> "Weather Report"],
       [content |-> st.compliance_analysis, type |-> "compliance_report", name |-> "Compliance Report"],
       [content |-> st.summary, type |-> "master_report", name |-> "Master Report"] >>

\* the loop of submit_reports from report i on; acc holds the bucket, the
\* calls made and the two lists
RECURSIVE WriteReports(_, _, _, _, _)
WriteReports(reports, faults, time, i, acc) ==
    IF i > Len(reports) THEN acc
    ELSE LET report == reports[i]
             write_result == S3ReportWriter_run(acc.bucket_name, report.content,
                                                report.type, time, faults[i])
         IN  WriteReports(reports, faults, time, i + 1,
                 [bucket_name |-> acc.bucket_name,
                  store |-> acc.store \o write_result.puts,
                  log |-> Append(acc.log, report.type),
                  successful |-> IF write_result.success
                                 THEN Append(acc.successful, report.name)
                                 ELSE acc.successful,
                  failed |-> IF write_result.success
                             THEN acc.failed
                             ELSE Append(acc.failed, report.name)])

\* mutant: the loop ends at the first failed write
RECURSIVE WriteUntilFailure(_, _, _, _, _)
WriteUntilFailure(reports, faults, time, i, acc) ==
    IF i > Len(reports) \/ acc.failed # <<>> THEN acc
    ELSE WriteUntilFailure(reports, faults, time, i + 1,
             WriteReports(<<reports[i]>>, <<faults[i]>>, time, 1, acc))

WriteAll_break(reports, faults, time, acc) ==
    WriteUntilFailure(reports, faults, time, 1, acc)

\* the whole loop: every report is attempted, whatever the earlier ones did
WriteAll(reports, faults, time, acc) == WriteReports(reports, faults, time, 1, acc)

\* the string submit_reports returns, in parts
SubmitMessage(successful, reports, fb) ==
    <<"Submitted ", ToString(Len(successful)), "/", ToString(Len(reports)),
      " reports. Approved by user: ", fb>>

submit_reports ==
    /\ Triggered("submit_reports")
    /\ UNCHANGED toolvars
    /\ UNCHANGED results
    /\ \E faults \in WriteFaults :
         IF ~CanRead({"vision_analysis", "sensor_analysis", "weather_analysis",
                      "compliance_analysis", "summary"})
         THEN Raise("submit_reports", state, keys)
         ELSE LET reports == reports_to_write(state)
                  done == WriteAll(reports, faults, now,
                              [bucket_name |-> S3_BUCKET,
                               store |-> store, log |-> write_log,
                               successful |-> <<>>, failed |-> <<>>])
              IN  /\ store' = done.store
                  /\ write_log' = done.log
                  /\ successful_writes' = done.successful
                  /\ failed_writes' = done.failed
                  /\ returned' = SubmitMessage(done.successful, reports, feedback)
                  /\ completed' = Append(completed, "submit_reports")
                  /\ UNCHANGED <<state, keys, raised, method_output, outcome,
                                 feedback, now, cache_file>>

\* the string no_reports returns, in parts
DenialMessage(fb) == <<"Shall not be submitting reports. Denied by user: ", fb>>

no_reports ==
    /\ Triggered("no_reports")
    /\ UNCHANGED toolvars
    /\ returned' = DenialMessage(feedback)
    /\ completed' = Append(completed, "no_reports")
    /\ UNCHANGED <<state, keys, raised, method_output, outcome, feedback, store,
                   write_log, successful_writes, failed_writes, now, cache_file,
                   results>>

\* ------------------------------------------------------------ cache operations
\* time.time() moves on
Tick ==
    /\ ticks < MaxTicks
    /\ \E d \in {1, CACHE_TTL - 1, EU_AI_ACT_CACHE_TTL - 1} : now' = now + d
    /\ ticks' = ticks + 1
    /\ UNCHANGED <<runvars, servicevars, store, cache_file, cachevars, guardvars, retryvars>>

\* the string WeatherAPITool._run returns once the cache gave nothing
\* mutant: the tool builds the status error for every response, 200 included
ApiResult_status(location, api) == "Error fetching weather data. Status code: " \o api

ApiResult(location, api) ==
    CASE api = "no key" ->
           "Error: WEATHER_API_KEY environment variable not set. Please configure your API key."
      [] api = "unreachable" ->
           "Error: Failed to connect to weather API after 3 attempts. "
      [] api = "200" -> WeatherText(location)
      [] api = "200 malformed" -> "Error: Unexpected response format from API. "
      [] api = "401" ->
           "Error: Invalid API key. Please check your WEATHER_API_KEY configuration."
      [] api = "400" ->
           "Error: Location '" \o location \o "' not found. Please provide a valid city name."
      [] OTHER -> "Error fetching weather data. Status code: " \o api

\* WeatherAPITool._run(location): the cache read, the request, the cache write
WeatherAPITool_run ==
    \E location \in Locations, api \in ApiOutcomes, fault \in DiskFaults :
        LET name == CacheFileName[location]
            cached == _get_cached(weather_cache[name], now)
            call == [NoCall EXCEPT !.op = "WeatherAPITool._run", !.location = location,
                                   !.seen = weather_cache[name], !.time = now]
        IN  /\ IF cached.raised # ""
               THEN /\ tool_call' = [call EXCEPT !.raised = cached.raised]
                    /\ UNCHANGED weather_cache
               ELSE IF cached.found
               THEN /\ tool_call' = [call EXCEPT !.hit = TRUE, !.result = cached.value]
                    /\ UNCHANGED weather_cache
               ELSE IF api # "200"
               THEN /\ tool_call' = [call EXCEPT !.requested = (api # "no key"),
                                                 !.result = ApiResult(location, api)]
                    /\ UNCHANGED weather_cache
               ELSE IF fault = "write"
               THEN /\ tool_call' = [call EXCEPT !.requested = TRUE, !.fault = fault,
                                                 !.raised = "OSError"]
                    /\ UNCHANGED weather_cache
               ELSE /\ tool_call' = [call EXCEPT !.requested = TRUE, !.stored = TRUE,
                                                 !.result = ApiResult(location, api)]
                    /\ weather_cache' =
                         [weather_cache EXCEPT ![name] = _set_cache(ApiResult(location, api), now)]
            /\ UNCHANGED <<runvars, servicevars, store, now, cache_file, ticks, guardvars, retryvars>>

\* a direct call of _get_cached_eu_ai_act(), as initiate_compliance_crew makes
read_eu_ai_act_cache ==
    LET cached == _get_cached_eu_ai_act(cache_file, now)
    IN  /\ tool_call' = [NoCall EXCEPT !.op = "_get_cached_eu_ai_act", !.seen = cache_file,
                                       !.time = now,
                                       !.raised = IF cached.raised THEN "AttributeError" ELSE "",
                                       !.hit = cached.found, !.result = cached.value]
        /\ UNCHANGED <<runvars, servicevars, store, now, cache_file, weather_cache, ticks, guardvars, retryvars>>

\* ComplianceCrew._cache_eu_ai_act_result(result): the callback of eu_ai_act_task
_cache_eu_ai_act_result ==
    \E raw \in EuAiActRawOutputs, fault \in DiskFaults :
        LET persisted == json_loads(raw) # ParseError /\ fault = "none"
        IN  /\ tool_call' = [NoCall EXCEPT !.op = "_cache_eu_ai_act_result",
                                           !.seen = cache_file, !.time = now,
                                           !.fault = IF json_loads(raw) # ParseError
                                                     THEN fault ELSE "malformed",
                                           !.stored = persisted, !.result = raw]
            /\ cache_file' = IF persisted THEN _set_cached_eu_ai_act(raw, now) ELSE cache_file
            /\ UNCHANGED <<runvars, servicevars, store, now, weather_cache, ticks, guardvars, retryvars>>

CacheInit ==
    /\ FlowIdle
    /\ Configured
    /\ ServicesIdle
    /\ store = <<>>
    /\ now = RunEpoch
    /\ cache_file \in CacheFiles
    /\ \E file \in WeatherCacheFiles : weather_cache = [name \in CacheFileNames |-> file]
    /\ ticks = 0
    /\ tool_call = NoCall
    /\ GuardrailsIdle
    /\ RetrieversIdle

CacheNext ==
    \/ Tick
    \/ WeatherAPITool_run
    \/ read_eu_ai_act_cache
    \/ _cache_eu_ai_act_result

CacheSpec == CacheInit /\ [][CacheNext]_vars

\* --------------------------------------------------------- guardrail calls
\* the task's guardrail is called with the task's output; what it returns, or
\* the exception that leaves it, is the verdict
Verdict(name, result) ==
    [guardrail |-> name, exc |-> result.exc, caught |-> result.caught,
     valid |-> result.valid, payload |-> result.payload]

\* the guardrail of weather_report_task, with its two except clauses
validate_weather_report_output ==
    /\ verdict = NoVerdict
    /\ verdict' = Verdict("validate_weather_report_output",
                      Handlers(weather_checks(task_output, json_loads(task_output)),
                               NotJsonLong, PleaseCheck))
    /\ UNCHANGED <<runvars, servicevars, store, now, cache_file, cachevars, ticks, task_output, retryvars>>

\* the guardrail of crop_sensor_task, with its two except clauses
validate_sensor_analysis_output ==
    /\ verdict = NoVerdict
    /\ verdict' = Verdict("validate_sensor_analysis_output",
                      Handlers(sensor_checks(task_output, json_loads(task_output)),
                               NotJsonLong, PleaseCheck))
    /\ UNCHANGED <<runvars, servicevars, store, now, cache_file, cachevars, ticks, task_output, retryvars>>

\* the guardrail of image_retriever_task, with its two except clauses
validate_image_retriever_output ==
    /\ verdict = NoVerdict
    /\ verdict' = Verdict("validate_image_retriever_output",
                      Handlers(image_checks(task_output, json_loads(task_output)),
                               NotJsonLong, PleaseCheck))
    /\ UNCHANGED <<runvars, servicevars, store, now, cache_file, cachevars, ticks, task_output, retryvars>>

\* the guardrail of the aggregation task of the crop crew, with its two except clauses
validate_combined_output ==
    /\ verdict = NoVerdict
    /\ verdict' = Verdict("validate_combined_output",
                      Handlers(combined_checks(task_output, json_loads(task_output)),
                               NotJsonLong, PleaseCheck))
    /\ UNCHANGED <<runvars, servicevars, store, now, cache_file, cachevars, ticks, task_output, retryvars>>

\* the guardrail of the compliance task, with its two except clauses
validate_compliance_output ==
    /\ verdict = NoVerdict
    /\ verdict' = Verdict("validate_compliance_output",
                      Handlers(compliance_checks(task_output, json_loads(task_output)),
                               NotJsonLong, PleaseCheck))
    /\ UNCHANGED <<runvars, servicevars, store, now, cache_file, cachevars, ticks, task_output, retryvars>>

\* the guardrail of the EU AI Act task, with its two except clauses
validate_eu_ai_act_output ==
    /\ verdict = NoVerdict
    /\ verdict' = Verdict("validate_eu_ai_act_output",
                      Handlers(eu_ai_act_checks(task_output, json_loads(task_output)),
                               NotJsonLong, PleaseCheck))
    /\ UNCHANGED <<runvars, servicevars, store, now, cache_file, cachevars, ticks, task_output, retryvars>>

\* the guardrail of the aggregation task of the compliance crew, with its two except clauses
validate_combined_compliance_output ==
    /\ verdict = NoVerdict
    /\ verdict' = Verdict("validate_combined_compliance_output",
                      Handlers(combined_compliance_checks(task_output, json_loads(task_output)),
                               NotJsonShort, ""))
    /\ UNCHANGED <<runvars, servicevars, store, now, cache_file, cachevars, ticks, task_output, retryvars>>

\* the guardrail of the master report task, with its two except clauses
validate_master_report_output ==
    /\ verdict = NoVerdict
    /\ verdict' = Verdict("validate_master_report_output",
                      Handlers(master_checks(task_output, json_loads(task_output)),
                               NotJsonLong, PleaseCheck))
    /\ UNCHANGED <<runvars, servicevars, store, now, cache_file, cachevars, ticks, task_output, retryvars>>

\* the guardrail of the financial analysis task, with its two except clauses
validate_financial_analysis_output ==
    /\ verdict = NoVerdict
    /\ verdict' = Verdict("validate_financial_analysis_output",
                      Handlers(financial_checks(task_output, json_loads(task_output)),
                               NotJsonLong, PleaseCheck))
    /\ UNCHANGED <<runvars, servicevars, store, now, cache_file, cachevars, ticks, task_output, retryvars>>

GuardrailInit ==
    /\ FlowIdle
    /\ Configured
    /\ ServicesIdle
    /\ store = <<>>
    /\ now = RunEpoch
    /\ cache_file = NoFile
    /\ CachesIdle
    /\ ticks = 0
    /\ task_output \in GuardrailInputs
    /\ verdict = NoVerdict
    /\ RetrieversIdle

GuardrailNext ==
    \/ validate_weather_report_output
    \/ validate_sensor_analysis_output
    \/ validate_image_retriever_output
    \/ validate_combined_output
    \/ validate_compliance_output
    \/ validate_eu_ai_act_output
    \/ validate_combined_compliance_output
    \/ validate_master_report_output
    \/ validate_financial_analysis_output

GuardrailSpec == GuardrailInit /\ [][GuardrailNext]_vars

\* --------------------------------------------------------- retrieval calls
\* time.sleep(delay) for every delay of the call
RECURSIVE SumSeq(_)
SumSeq(s) == IF s = <<>> THEN 0 ELSE Head(s) + SumSeq(Tail(s))

\* a tool call by an agent: the result is returned once the sleeps are over
sensor_data_retrieval ==
    /\ retrieval = NoRetrieval
    /\ \E boto3 \in BOOLEAN, answers \in [1..max_retries -> QueryOutcomes] :
          retrieval' = RetrievedWithRetry("SensorDataRetriever", "SensorData",
                           "Failed to retrieve sensor data", boto3, answers)
    /\ now' = now + SumSeq(retrieval'.delays)
    /\ UNCHANGED <<runvars, servicevars, store, cache_file, cachevars, ticks, guardvars>>

vision_data_retrieval ==
    /\ retrieval = NoRetrieval
    /\ \E boto3 \in BOOLEAN, answers \in [1..max_retries -> QueryOutcomes] :
          retrieval' = RetrievedWithRetry("DynamoDBVisionRetriever",
                           "terra-hawk-capture-moments",
                           "Failed to retrieve vision data", boto3, answers)
    /\ now' = now + SumSeq(retrieval'.delays)
    /\ UNCHANGED <<runvars, servicevars, store, cache_file, cachevars, ticks, guardvars>>

finance_retrieval ==
    /\ retrieval = NoRetrieval
    /\ \E boto3 \in BOOLEAN, answers \in [DOMAIN FinanceTables -> QueryOutcomes] :
          retrieval' = FinanceRetriever_run(boto3, answers)
    /\ now' = now + SumSeq(retrieval'.delays)
    /\ UNCHANGED <<runvars, servicevars, store, cache_file, cachevars, ticks, guardvars>>

mission_logs_retrieval ==
    /\ retrieval = NoRetrieval
    /\ \E boto3 \in BOOLEAN, params \in MissionFilters, answer \in QueryOutcomes :
          retrieval' = MissionLogsRetriever_run(boto3, params, answer)
    /\ now' = now + SumSeq(retrieval'.delays)
    /\ UNCHANGED <<runvars, servicevars, store, cache_file, cachevars, ticks, guardvars>>

RetryInit ==
    /\ FlowIdle
    /\ Configured
    /\ ServicesIdle
    /\ store = <<>>
    /\ now = RunEpoch
    /\ cache_file = NoFile
    /\ CachesIdle
    /\ ticks = 0
    /\ GuardrailsIdle
    /\ RetrieversIdle

RetryNext ==
    \/ sensor_data_retrieval
    \/ vision_data_retrieval
    \/ finance_retrieval
    \/ mission_logs_retrieval

RetrySpec == RetryInit /\ [][RetryNext]_vars

\* ------------------------------------------------------------ report writes
\* the S3 Report Writer tool called outside submit_reports: by an agent, or
\* by another run of the flow on the same farm
ReportContents == {"{}", "# report"}
WrittenTypes == {"master_report", "mission_plan", "summary"}

write_report ==
    /\ Len(store) < MaxPuts
    /\ \E report_content \in ReportContents, report_type \in WrittenTypes,
          fault \in {"none"} \cup WriteFaultKinds :
          store' = store \o S3ReportWriter_run(S3_BUCKET, report_content, report_type,
                                               now, fault).puts
    /\ UNCHANGED <<runvars, now, cache_file, toolvars>>

WriterInit ==
    /\ FlowIdle
    /\ Configured
    /\ store = <<>>
    /\ now = RunEpoch
    /\ cache_file = NoFile
    /\ ToolsIdle

WriterNext ==
    \/ Tick
    \/ write_report

WriterSpec == WriterInit /\ [][WriterNext]_vars

\* ------------------------------------------------------------ API requests
\* the requests of the model: for a farm or for none, for a report type of the
\* frontend, a drone report type or the list, for a date or for today
Events ==
    {[NoEvent EXCEPT !.httpMethod = "OPTIONS"], [NoEvent EXCEPT !.httpMethod = "GET"]}
    \cup [httpMethod : {"GET"}, farm_id : {"FARM-001"}, report_type : {""},
          date : {DateOf(RunEpoch), ""}, listing : StorageOutcomes, reading : {"ok"}]
    \cup [httpMethod : {"GET"}, farm_id : {"FARM-001"},
          report_type : {"master_report", "mission_plan"},
          date : {DateOf(RunEpoch), ""}, listing : {"ok"}, reading : StorageOutcomes]
    \cup [httpMethod : {"GET"}, farm_id : {"FARM-001"},
          report_type : {"master_report", "mission_plan"},
          date : {DateOf(RunEpoch), ""}, listing : StorageOutcomes \ {"ok"}, reading : {"ok"}]

\* a GET or OPTIONS request reaches the Lambda function
reports_api ==
    /\ response = NoResponse
    /\ \E event \in Events :
          response' = [handler(store, S3_BUCKET, event, DateOf(now)) EXCEPT !.request = event]
    /\ UNCHANGED <<runvars, S3_BUCKET, invocation, store, now, cache_file, cachevars,
                   ticks, guardvars, retryvars>>

\* an object that was put into the bucket by hand: its content is no JSON
Uploaded == [key |-> "FARM-001/" \o DateOf(RunEpoch) \o "/reports/master_report_upload.json",
             body |-> "not json", second |-> 0]

ApiInit ==
    /\ FlowIdle
    /\ S3_BUCKET \in {NoBucket, BucketName}
    /\ store \in {<<>>, <<Uploaded>>}
    /\ now = RunEpoch
    /\ cache_file = NoFile
    /\ ToolsIdle

ApiNext ==
    \/ Tick
    \/ write_report
    \/ reports_api

ApiSpec == ApiInit /\ [][ApiNext]_vars

\* ------------------------------------------------------------ wrapped calls
\* try: return func(*args, **kwargs); except Exception as e: last_exception = e
wrapper_try ==
    /\ invocation.pc = "try"
    /\ \E ended \in FuncOutcomes :
          invocation' =
              IF ended = "result"
              THEN [invocation EXCEPT !.calls = Append(@, ended), !.returned = ended,
                                      !.pc = "returned"]
              ELSE [invocation EXCEPT !.calls = Append(@, ended),
                                      !.last_exception = ended,
                                      !.pc = IF invocation.attempt < invocation.max_retries
                                             THEN "sleep" ELSE "raise"]
    /\ UNCHANGED <<runvars, S3_BUCKET, response, store, now, cache_file, cachevars,
                   ticks, guardvars, retryvars>>

\* time.sleep(delay), then the next turn of the loop
wrapper_sleep ==
    /\ invocation.pc = "sleep"
    /\ LET delay == Backoff(invocation.base_delay, invocation.attempt, invocation.max_delay)
       IN  /\ invocation' = [invocation EXCEPT !.sleeps = Append(@, delay),
                                               !.attempt = @ + 1, !.pc = "try"]
           /\ now' = now + delay
    /\ UNCHANGED <<runvars, S3_BUCKET, response, store, cache_file, cachevars,
                   ticks, guardvars, retryvars>>

\* raise last_exception, after the loop
wrapper_raise ==
    /\ invocation.pc = "raise"
    /\ invocation' = [invocation EXCEPT !.raised = invocation.last_exception,
                                        !.pc = "raised"]
    /\ UNCHANGED <<runvars, S3_BUCKET, response, store, now, cache_file, cachevars,
                   ticks, guardvars, retryvars>>

WithRetryInit ==
    /\ FlowIdle
    /\ Configured
    /\ store = <<>>
    /\ now = RunEpoch
    /\ cache_file = NoFile
    /\ CachesIdle
    /\ ticks = 0
    /\ GuardrailsIdle
    /\ RetrieversIdle
    /\ response = NoResponse
    /\ invocation \in Decorated

WithRetryNext ==
    \/ wrapper_try
    \/ wrapper_sleep
    \/ wrapper_raise

WithRetrySpec == WithRetryInit /\ [][WithRetryNext]_vars

\* ------------------------------------------------------------ specification
Next ==
    \/ start_flow
    \/ initiate_crop_crew
    \/ initiate_compliance_crew
    \/ decision
    \/ submit_reports
    \/ no_reports

Spec == Init /\ [][Next]_vars

\* ==================================================================== claims
\* a step in which the flow runs `method` (to its return or to an exception)
Runs(method) ==
    /\ ~HasCompleted(method)
    /\ raised # method
    /\ HasCompleted(method)' \/ raised' = method

\* the position of a completed method in the order of completion
Position(method) == CHOOSE i \in 1..Len(completed) : completed[i] = method

\* the slots the completeness guard requires
GuardedSlots == {"vision_analysis", "sensor_analysis", "compliance_analysis"}

\* C1: at the checkpoint, if a required upstream report slot is "" or "{}",
\* the outcome of the run is "no" whatever the human answered, and the run
\* goes to no_reports and never to submit_reports.
C1_GuardForcesNo ==
    (/\ HasCompleted("decision")
     /\ \E slot \in GuardedSlots : state[slot] = "" \/ state[slot] = "{}")
    => /\ outcome = "no"
       /\ ~HasCompleted("submit_reports")

\* C2: a report is written to the store only inside submit_reports and only
\* after the checkpoint outcome was "yes"; in a run whose outcome is "no" no
\* write is attempted, and no_reports returns the denial string.
C2_WritesOnlyAfterYes ==
    /\ (write_log # <<>> \/ store # <<>>)
          => outcome = "yes" /\ HasCompleted("submit_reports")
    /\ outcome = "no" => write_log = <<>> /\ store = <<>>
    /\ HasCompleted("no_reports")
          => /\ outcome = "no"
             /\ returned = <<"Shall not be submitting reports. Denied by user: ", feedback>>

C2_Witness ==
    /\ HasCompleted("no_reports")
    /\ method_output = "yes"
    /\ feedback # ""

\* C3: decision never begins before the crop stage and the compliance stage
\* have completed and written their slots, and the compliance stage never
\* begins (so never reads vision, sensor or weather) before the crop stage has
\* written them.
C3_StagesInOrder ==
    [][ /\ Runs("decision")
            => /\ HasCompleted("initiate_crop_crew")
               /\ HasCompleted("initiate_compliance_crew")
               /\ CropKeys \cup {"compliance_analysis"} \subseteq keys
        /\ Runs("initiate_compliance_crew")
            => /\ HasCompleted("initiate_crop_crew")
               /\ CropKeys \subseteq keys ]_vars

C3_Witness ==
    /\ HasCompleted("decision")
    /\ Position("initiate_crop_crew") < Position("initiate_compliance_crew")
    /\ Position("initiate_compliance_crew") < Position("decision")

\* C4: for every combination of stage raw outputs and every checkpoint
\* outcome the run ends in exactly one of submit_reports and no_reports with
\* that step's outcome string; no exception propagates out of a stage.
C4_RunEndsWithOutcome ==
    /\ raised = ""
    /\ (\A method \in DOMAIN Listens : ~Triggered(method))
          => /\ HasCompleted("submit_reports") # HasCompleted("no_reports")
             /\ returned # <<>>

\* the crop stage or the compliance stage substituted its placeholder
PlaceholderSubstituted ==
    \/ /\ HasCompleted("initiate_crop_crew")
       /\ json_loads(results.crop_crew) = ParseError
    \/ /\ HasCompleted("initiate_compliance_crew")
       /\ json_loads(results.compliance_crew) = ParseError

\* C5: whenever a stage's slot was filled by a substituted placeholder, the
\* run does not crash, the completeness guard forces the decision "no" and no
\* report is submitted.
C5_PlaceholderForcesNo ==
    (PlaceholderSubstituted /\ HasCompleted("decision"))
    => /\ method_output = "no"
       /\ outcome = "no"
       /\ write_log = <<>>

\* the raw output of a stage that ran is not valid JSON
Unparseable(crew) == results[crew] # NotRun /\ json_loads(results[crew]) = ParseError

HasUsage(crew_name) ==
    \E i \in 1..Len(state.token_usage) : state.token_usage[i].crew = crew_name

ReportTypes == <<"vision_analysis", "sensor_analysis", "weather_report",
                 "compliance_report", "master_report">>
ReportNames == <<"Vision Analysis", "Sensor Analysis", "Weather Report",
                 "Compliance Report", "Master Report">>

InSeq(x, seq) == \E i \in 1..Len(seq) : seq[i] = x

\* the .json objects of the bucket: one is stored by each write that succeeded
StoredJson(report_type) ==
    \E i \in 1..Len(store) :
        store[i].key = "FARM-001/" \o DateOf(now) \o "/reports/" \o report_type
                       \o "_" \o ToString(now) \o ".json"

\* C7: submit_reports attempts the five writes in the order vision, sensor,
\* weather, compliance, master whichever of them fail; a failed write neither
\* prevents nor rolls back another record's write, every record is in exactly
\* one of the two lists, and the tally is (writes that succeeded)/5: 4/5 when
\* only record 3 fails.
C7_PartialWrites ==
    HasCompleted("submit_reports")
    => /\ write_log = ReportTypes
       /\ \A i \in 1..5 :
            /\ InSeq(ReportNames[i], successful_writes) # InSeq(ReportNames[i], failed_writes)
            /\ InSeq(ReportNames[i], successful_writes) <=> StoredJson(ReportTypes[i])
       /\ Len(successful_writes) + Len(failed_writes) = 5
       /\ returned[2] = ToString(Cardinality({i \in 1..5 : StoredJson(ReportTypes[i])}))
       /\ returned[4] = "5"
       /\ failed_writes = <<"Weather Report">> => returned[2] = "4"

C7_Witness ==
    /\ HasCompleted("submit_reports")
    /\ failed_writes = <<"Weather Report">>
    /\ successful_writes = <<"Vision Analysis", "Sensor Analysis",
                             "Compliance Report", "Master Report">>

\* C8: the value the submission step returns contains, besides the tally, the
\* name of every report whose write failed.
C8_ReturnNamesFailures ==
    HasCompleted("submit_reports")
    => \A i \in 1..Len(failed_writes) : InSeq(failed_writes[i], returned)

\* C9: each Run State slot, token_usage included, is written by at most one
\* stage: once a slot is written, no later stage writes or mutates it.
C9_SlotsWrittenOnce ==
    [][\A slot \in keys : slot \in keys' /\ state'[slot] = state[slot]]_vars

\* C9 as amended: each slot other than token_usage is written by at most one
\* stage and never changed afterwards; token_usage is only appended to, by
\* each stage that completes, and its existing records are never changed.
C9_SlotsWrittenOnceButLedger ==
    [][ /\ \A slot \in keys \ {"token_usage"} :
              slot \in keys' /\ state'[slot] = state[slot]
        /\ "token_usage" \in keys => "token_usage" \in keys'
        /\ Len(state'.token_usage) >= Len(state.token_usage)
        /\ SubSeq(state'.token_usage, 1, Len(state.token_usage)) = state.token_usage
      ]_vars

C9_Witness ==
    /\ keys = Slots
    /\ Len(state.token_usage) = 3
    /\ HasCompleted("decision")

\* ------------------------------------------------------------ caches
\* the operations that read a cache, and the ones that write one
GetOps == {"WeatherAPITool._run", "_get_cached_eu_ai_act"}
SetOps == {"WeatherAPITool._run", "_cache_eu_ai_act_result"}

\* the TTL of the cache the last operation used, and that cache's file now
TTLOfCall == IF tool_call.op = "WeatherAPITool._run" THEN CACHE_TTL ELSE EU_AI_ACT_CACHE_TTL
FileOfCall ==
    IF tool_call.op = "WeatherAPITool._run"
    THEN weather_cache[CacheFileName[tool_call.location]]
    ELSE cache_file

\* a file as set writes it: a JSON object with a timestamp and a result
IsEntry(file) ==
    file.exists /\ file.shape = "dict" /\ file.has_timestamp /\ file.has_result

\* C11: for both caches (weather, TTL 1800 s; EU AI Act, TTL 604800 s) a get
\* at time t of an entry stored at T0 returns the stored payload unchanged when
\* t - T0 < TTL and reports absent when t - T0 >= TTL; the TTL is checked only
\* on read (an operation that stores nothing leaves the file as it was), and a
\* set stores the entry with the current time.
C11_TTLBoundary ==
    /\ (tool_call.op \in GetOps /\ IsEntry(tool_call.seen))
          => /\ tool_call.raised \in {"", "OSError"}
             /\ IF tool_call.time - tool_call.seen.timestamp < TTLOfCall
                THEN tool_call.hit /\ tool_call.result = tool_call.seen.result
                ELSE ~tool_call.hit
    /\ tool_call.stored
          => FileOfCall = [exists |-> TRUE, shape |-> "dict",
                           has_timestamp |-> TRUE, timestamp |-> tool_call.time,
                           has_result |-> TRUE, result |-> tool_call.result]
    /\ (tool_call.op # "" /\ ~tool_call.stored) => FileOfCall = tool_call.seen

\* the weather tool is asked again exactly CACHE_TTL seconds after it stored
\* the text of a 200 response, and the entry is reported absent
C11_Witness ==
    /\ tool_call.op = "WeatherAPITool._run"
    /\ tool_call.seen.result = WeatherText("Den Haag")
    /\ tool_call.time - tool_call.seen.timestamp = CACHE_TTL
    /\ ~tool_call.hit

\* C12: for both caches a get on a missing entry or on an entry whose file is
\* corrupt (not JSON, not an object, or lacking the timestamp or the result)
\* returns absent and never raises, so the caller goes on to the underlying
\* operation.
C12_CorruptIsMiss ==
    (tool_call.op \in GetOps /\ ~IsEntry(tool_call.seen))
    => /\ tool_call.raised \in {"", "OSError"}
       /\ ~tool_call.hit

\* C13: for both caches a failure to persist an entry in set (the file cannot
\* be written, or the payload is malformed) is swallowed: the operation that
\* produced the value still returns its result and no exception reaches the
\* caller.
C13_SetFailureSwallowed ==
    (tool_call.op \in SetOps /\ tool_call.fault # "none")
    => /\ tool_call.raised = ""
       /\ tool_call.op = "WeatherAPITool._run"
             => tool_call.result = WeatherText(tool_call.location)

\* ------------------------------------------------------------ guardrails
\* a guardrail has been applied to the task output
Judged == verdict.guardrail # ""

\* C14: every guardrail returns a pair for every raw output and no exception
\* leaves it: an accepting pair carries the raw output unchanged, an
\* exception raised while validating is turned into a rejection with a
\* reason, and a raw output whose top level is no JSON object is rejected
C14_VerdictNeverRaises ==
    Judged =>
        /\ verdict.exc = ""
        /\ verdict.valid => verdict.payload = task_output
        /\ ~verdict.valid => verdict.payload # ""
        /\ verdict.caught # "" => ~verdict.valid
        /\ json_loads(task_output).t # "dict" => ~verdict.valid

\* a guardrail was given a JSON text that is no object although it holds the
\* names it looks for, and the exception of its field access became a rejection
C14_Witness ==
    /\ Judged
    /\ json_loads(task_output).t \in {"list", "str", "num", "bool", "null"}
    /\ verdict.caught \in {"AttributeError", "TypeError"}
    /\ ~verdict.valid

\* C15: a raw output that is no JSON is rejected by every guardrail with the
\* reason of its JSON handler, the handler is entered by the parse failing
\* (before any field check), and the reason is not one of a field check
C15_NotJsonReason ==
    (Judged /\ json_loads(task_output).t = "JSONDecodeError") =>
        /\ ~verdict.valid
        /\ verdict.caught = "JSONDecodeError"
        /\ verdict.payload =
              IF verdict.guardrail = "validate_combined_compliance_output"
              THEN NotJsonShort ELSE NotJsonLong
        /\ IsSubstring("not valid JSON", verdict.payload)
        /\ ~IsSubstring("field", verdict.payload)

\* a guardrail was given a text that is no JSON and rejected it
C15_Witness ==
    /\ Judged
    /\ task_output = "{weather_analysis: {}}"
    /\ verdict.caught = "JSONDecodeError"
    /\ ~verdict.valid

\* the enumerated fields the task output is a variant of, for the guardrail
\* that judged it
VariantsJudged ==
    {e \in EnumVariants : e.guardrail = verdict.guardrail /\ e.raw = task_output}

\* C16: a complete output with one enumerated field varied is accepted by its
\* stage's guardrail exactly when the value is in the field's closed set
C16_EnumClosedSets ==
    \A e \in VariantsJudged : verdict.valid <=> e.value \in e.allowed

\* C17: an aggregation guardrail accepts exactly the raw outputs that are a
\* JSON object in which every named sub-section is present and an object,
\* whatever the sub-sections hold
SectionsOf(guardrail) ==
    IF guardrail = "validate_combined_output"
    THEN {"weather_analysis", "sensor_analysis", "vision_analysis"}
    ELSE {"compliance_analysis", "eu_ai_act_assessment"}

SectionsAreObjects(data, sections) ==
    /\ data.t = "dict"
    /\ \A name \in sections : name \in DOMAIN data.m /\ data.m[name].t = "dict"

C17_AggregationPresence ==
    verdict.guardrail \in {"validate_combined_output", "validate_combined_compliance_output"}
        => (verdict.valid <=>
              SectionsAreObjects(json_loads(task_output), SectionsOf(verdict.guardrail)))

\* an aggregation guardrail accepted an output whose sub-sections are all
\* empty objects
C17_Witness ==
    /\ verdict.guardrail \in {"validate_combined_output", "validate_combined_compliance_output"}
    /\ verdict.valid
    /\ \A name \in SectionsOf(verdict.guardrail) :
           DOMAIN json_loads(task_output).m[name].m = {}

\* ------------------------------------------------------- retrieval adapters
\* the number of the attempt that query i of the call is on its table
AttemptOf(i) ==
    Cardinality({j \in 1..i : retrieval.queries[j].table = retrieval.queries[i].table})

\* C18: every retrieval adapter retries a failed query: a failed attempt that
\* is not the last allowed one is followed, after a sleep, by another attempt
\* on the same table; the sleeps double from one second and stay within the
\* bound the attempt limit gives; an answered query is not sent again
C18_RetryLoop ==
    /\ \A i \in DOMAIN retrieval.queries :
          /\ AttemptOf(i) <= max_retries
          /\ (retrieval.queries[i].outcome \in QueryFailures /\ AttemptOf(i) < max_retries)
                => /\ i + 1 \in DOMAIN retrieval.queries
                   /\ retrieval.queries[i + 1].table = retrieval.queries[i].table
                   /\ i \in DOMAIN retrieval.delays
          /\ retrieval.queries[i].outcome \notin QueryFailures
                => \A j \in DOMAIN retrieval.queries :
                      j > i => retrieval.queries[j].table # retrieval.queries[i].table
    /\ \A k \in DOMAIN retrieval.delays :
          /\ retrieval.delays[k] = 2 ^ (k - 1)
          /\ retrieval.delays[k] <= 2 ^ (max_retries - 2)

\* C19: when every query of a call failed, the adapter raises nothing and
\* returns a failure of one of the three kinds, never a success
C19_TypedFailure ==
    (/\ retrieval.queries # <<>>
     /\ \A i \in DOMAIN retrieval.queries : retrieval.queries[i].outcome \in QueryFailures)
        => /\ retrieval.raised = ""
           /\ ~retrieval.success
           /\ \/ retrieval.error \in {"DynamoDB table not found", "AWS credentials error"}
              \/ IsSubstring("Failed to retrieve", retrieval.error)

\* ------------------------------------------------------------ report keys
\* the object is the .json sibling, the last object a successful write stores
IsJsonObject(put) ==
    SubSeq(put.key, Len(put.key) - 4, Len(put.key)) = ".json"

\* C20: no two successful writes use the same storage key, so no stored
\* report is overwritten
C20_KeysNeverCollide ==
    \A i, j \in DOMAIN store :
        (i # j /\ IsJsonObject(store[i]) /\ IsJsonObject(store[j]))
            => store[i].key # store[j].key

\* ------------------------------------------------------ report JSON sibling
\* the .md object a write stored just before the .json object at place i
MarkdownOf(i) == store[i - 1]

\* C21: content that is no JSON never makes a write fail; the .json sibling of
\* a report is the content itself when the content is JSON and the content
\* wrapped under the one key raw_content when it is not, so every stored
\* .json object parses
C21_JsonSiblingParses ==
    /\ \A report_content \in ReportContents, report_type \in valid_report_types :
          S3ReportWriter_run(BucketName, report_content, report_type, now, "none").success
    /\ \A i \in DOMAIN store :
          IsJsonObject(store[i]) =>
             LET stored  == json_loads(store[i].body)
                 content == MarkdownOf(i).body
             IN  /\ stored.t # "JSONDecodeError"
                 /\ IF json_loads(content).t # "JSONDecodeError"
                    THEN store[i].body = content
                    ELSE /\ stored.t = "dict"
                         /\ DOMAIN stored.m = {"raw_content"}
                         /\ stored.m["raw_content"].t = "str"
                         /\ stored.m["raw_content"].s = content

\* a report whose content is no JSON was written, both objects stored
C21_Witness ==
    \E i \in DOMAIN store :
        /\ IsJsonObject(store[i])
        /\ json_loads(MarkdownOf(i).body).t = "JSONDecodeError"
        /\ MarkdownOf(i).body = "# report"

\* ------------------------------------------------------ missing configuration
\* C22: when S3_BUCKET is not set, the submission step calls the writer for no
\* report at all, and the read API answers the one error that names the
\* missing configuration without a storage call
C22_MissingBucketFailsFast ==
    S3_BUCKET = NoBucket
        => /\ HasCompleted("submit_reports") => write_log = <<>>
           /\ response # NoResponse
                 => /\ response.status = 500
                    /\ response.error = "S3_BUCKET not configured"
                    /\ response.calls = <<>>

\* -------------------------------------------------------------- report reads
\* the places in the store of the .json reports of a type the writer stored
\* in a date partition
WrittenReports(report_type, date) ==
    {i \in DOMAIN store : /\ store[i].key = ObjectKey(report_type, store[i].second, "json")
                          /\ DateOf(store[i].second) = date}
LastWritten(report_type, date) ==
    {i \in WrittenReports(report_type, date) :
        \A j \in WrittenReports(report_type, date) : j <= i}

\* the date a request asks for
DateAsked(event) == IF event.date = "" THEN DateOf(now) ELSE event.date

\* C23: when the bucket holds what successful writes stored, a GET for a
\* report type the writer accepts and a date partition holding a report of
\* that type is answered 200 with the parsed content of the report of that
\* type written last in the partition
C23_LatestReportServed ==
    [][(/\ response = NoResponse
        /\ response' # NoResponse
        /\ S3_BUCKET = BucketName
        /\ \A i \in DOMAIN store : store[i] # Uploaded
        /\ response'.request.httpMethod = "GET"
        /\ response'.request.report_type \in valid_report_types
        /\ response'.request.listing = "ok"
        /\ response'.request.reading = "ok"
        /\ WrittenReports(response'.request.report_type, DateAsked(response'.request)) # {})
       => /\ response'.status = 200
          /\ \A i \in LastWritten(response'.request.report_type,
                                   DateAsked(response'.request)) :
                json_dumps(response'.content) = json_dumps(json_loads(store[i].body))
      ]_vars

\* the .json objects of a report type in a date partition of the bucket
JsonReports(event) ==
    {obj \in Objects(store) :
        /\ StartsWith(obj.key, event.farm_id \o "/" \o DateAsked(event) \o "/reports/"
                                \o event.report_type \o "_")
        /\ EndsWith(obj.key, ".json")}

\* C24: a GET for a report type is answered 404 with an error body when the
\* partition holds no .json report of the type, and 500 with an error body
\* when the listing fails, when the read fails, or when the content is no
\* JSON; no exception leaves the handler and none of these cases is answered
\* 200
C24_StructuredErrors ==
    [][(/\ response = NoResponse
        /\ response' # NoResponse
        /\ S3_BUCKET = BucketName
        /\ response'.request.httpMethod = "GET"
        /\ response'.request.farm_id # ""
        /\ response'.request.report_type # "")
       => /\ response'.raised = ""
          /\ response'.request.listing # "ok"
                => response'.status = 500 /\ response'.error # ""
          /\ (response'.request.listing = "ok" /\ JsonReports(response'.request) = {})
                => response'.status = 404 /\ response'.error # ""
          /\ (/\ response'.request.listing = "ok"
              /\ JsonReports(response'.request) # {}
              /\ response'.request.reading # "ok")
                => response'.status = 500 /\ response'.error # ""
          /\ response'.status = 200
                => \E obj \in JsonReports(response'.request) :
                      /\ obj.key = response'.key
                      /\ json_loads(obj.body).t # "JSONDecodeError"
      ]_vars

\* ------------------------------------------------------------- token ledger
\* the name each stage records itself under, and the stages that have
\* completed, in completion order
StageCrews ==
    [initiate_crop_crew |-> "crop_crew",
     initiate_compliance_crew |-> "compliance_crew",
     decision |-> "master_chief (direct)"]
StagesCompleted == SelectSeq(completed, LAMBDA method : method \in DOMAIN StageCrews)

\* C25: the ledger holds one record for each stage that has completed, in
\* completion order, tagged with the name of the stage and the time of the
\* call, so at either terminal step it holds exactly three records
C25_LedgerOfCompletedStages ==
    /\ Len(state.token_usage) = Len(StagesCompleted)
    /\ \A i \in DOMAIN state.token_usage :
          /\ state.token_usage[i].crew = StageCrews[StagesCompleted[i]]
          /\ state.token_usage[i].timestamp \in RunEpoch..now
    /\ (HasCompleted("submit_reports") \/ HasCompleted("no_reports"))
          => Len(state.token_usage) = 3

\* a run reached no_reports with the three records of its stages
C25_Witness ==
    /\ HasCompleted("no_reports")
    /\ [i \in DOMAIN state.token_usage |-> state.token_usage[i].crew]
          = <<"crop_crew", "compliance_crew", "master_chief (direct)">>

\* ------------------------------------------------------------ retry helper
\* C26: a wrapped function that raises every time is called max_retries + 1
\* times and its last exception is raised; when call k is the first to
\* return, it is called k times and its result is returned; the wait before
\* retry i (from 0) is min(base_delay * 2^i, max_delay), and no wait follows
\* the last failure
C26_RetryContract ==
    /\ Len(invocation.calls) <= invocation.max_retries + 1
    /\ \A i \in DOMAIN invocation.sleeps :
          /\ (invocation.base_delay * (2 ^ (i - 1)) <= invocation.max_delay)
                => invocation.sleeps[i] = invocation.base_delay * (2 ^ (i - 1))
          /\ (invocation.base_delay * (2 ^ (i - 1)) > invocation.max_delay)
                => invocation.sleeps[i] = invocation.max_delay
    /\ now = RunEpoch + SumSeq(invocation.sleeps)
    /\ invocation.pc = "raised"
          => /\ Len(invocation.calls) = invocation.max_retries + 1
             /\ \A i \in DOMAIN invocation.calls : invocation.calls[i] # "result"
             /\ invocation.raised = invocation.calls[Len(invocation.calls)]
             /\ Len(invocation.sleeps) = invocation.max_retries
    /\ invocation.pc = "returned"
          => /\ \A i \in 1..(Len(invocation.calls) - 1) : invocation.calls[i] # "result"
             /\ invocation.calls[Len(invocation.calls)] = "result"
             /\ invocation.returned = "result"
             /\ invocation.raised = ""
             /\ Len(invocation.sleeps) = Len(invocation.calls) - 1

\* every call failed, with two kinds of exception, and a wait was capped
C26_Witness ==
    /\ invocation.pc = "raised"
    /\ invocation.max_retries = MaxRetries
    /\ invocation.calls[1] # invocation.raised
    /\ \E i \in DOMAIN invocation.sleeps :
          invocation.sleeps[i] < invocation.base_delay * (2 ^ (i - 1))

\* ------------------------------------------------------------ mission filters
\* C27: every mission MissionLogsRetriever._run returns satisfies each filter
\* that was supplied, whatever the combination; without farm_id, drone_id and
\* mission_status the call fails and makes no query
C27_AllFiltersApplied ==
    retrieval.adapter = "MissionLogsRetriever"
        => /\ \A mission \in retrieval.missions : \A name \in FilterNames :
                 retrieval.params[name] # "" => mission[name] = retrieval.params[name]
           /\ (/\ retrieval.params.farm_id = ""
               /\ retrieval.params.drone_id = ""
               /\ retrieval.params.mission_status = "")
                 => ~retrieval.success /\ retrieval.queries = <<>>

\* ------------------------------------------------------- cached assessment
\* the cache file holds an assessment stored less than the TTL ago
FreshAssessment ==
    /\ IsEntry(cache_file)
    /\ cache_file.result # ""
    /\ now - cache_file.timestamp < EU_AI_ACT_CACHE_TTL

\* C28: a compliance stage that starts with a fresh cached EU AI Act
\* assessment sets eu_ai_act_cached and completes without an EU AI Act
\* analysis being run
C28_CachedAssessmentServed ==
    [][(/\ FreshAssessment
        /\ completed' = Append(completed, "initiate_compliance_crew"))
       => /\ state'.eu_ai_act_cached
          /\ results'.eu_ai_act_task = NotRun
      ]_vars

\* ------------------------------------------------------- completeness guard
\* the slots the guard reads
GuardSlots == {"vision_analysis", "sensor_analysis", "compliance_analysis"}

\* C29: the value decision returns is fixed by the vision_analysis,
\* sensor_analysis and compliance_analysis slots alone: it is "no" when one of
\* them is "" or "{}" and "yes" otherwise, whatever the weather_analysis and
\* summary slots hold
C29_GuardReadsThreeSlots ==
    HasCompleted("decision")
        => (method_output = "no"
              <=> \E slot \in GuardSlots : state[slot] \in {"", "{}"})
           /\ method_output \in {"yes", "no"}

\* a run whose weather_analysis slot is "{}" got the guard value yes and
\* reached submit_reports
C29_Witness ==
    /\ HasCompleted("submit_reports")
    /\ state.weather_analysis = "{}"
    /\ method_output = "yes"

\* ------------------------------------------------------- weather cache content
\* the results WeatherAPITool._run returns for anything but a usable 200
ErrorResults ==
    {ApiResult(location, api) : location \in Locations, api \in ApiOutcomes \ {"200"}}

\* C30: no weather cache file holds an error result; a call changes the file
\* of its location only after a request, and then to the text it built from
\* the 200 response; a call that returns an error leaves the file as it was;
\* a fresh hit returns what the file holds without a request
C30_CacheHoldsOnlySuccess ==
    /\ \A name \in CacheFileNames : weather_cache[name].result \notin ErrorResults
    /\ tool_call.op = "WeatherAPITool._run"
          => /\ FileOfCall # tool_call.seen
                   => /\ tool_call.requested
                      /\ tool_call.result = WeatherText(tool_call.location)
                      /\ FileOfCall = EntryFile(tool_call.time, tool_call.result)
             /\ tool_call.result \in ErrorResults => FileOfCall = tool_call.seen
             /\ tool_call.hit
                   => /\ ~tool_call.requested
                      /\ tool_call.result = tool_call.seen.result
                      /\ FileOfCall = tool_call.seen

\* a call was answered from an entry that an earlier call had stored from a
\* 200 response
C30_Witness ==
    /\ tool_call.op = "WeatherAPITool._run"
    /\ tool_call.hit
    /\ tool_call.result = WeatherText(tool_call.location)
    /\ tool_call.time > tool_call.seen.timestamp

====
